---- MODULE Spec2Model ----
(***************************************************************************)
(* Model of the local KPI pipeline of the Tractor analysis scripts         *)
(* (src/analysis/local_analyzer.py): LocalLogAnalyzer.load_logs, the       *)
(* analyze_* views and generate_final_report.                              *)
(*                                                                         *)
(* Representation.                                                         *)
(*   - A text line of a log file is a record: [json |-> obj] when          *)
(*     json.loads accepts it (obj is the decoded JSON object, a record     *)
(*     holding exactly the keys the line carries), [bad |-> why] when      *)
(*     json.loads raises JSONDecodeError.                                  *)
(*   - A pandas DataFrame is a sequence of rows.  A row built from a       *)
(*     decoded object keeps the object's keys; a key it lacks reads as     *)
(*     NaN (Col).                                                          *)
(*   - A numeric cell is <<n>> (a number) or <<>> (NaN / None).  Rounded   *)
(*     means are kept as scaled integers: a rate rounded to 3 decimals is  *)
(*     kept in thousandths, a mean rounded to 1 decimal in tenths, and so  *)
(*     on (Round).                                                         *)
(***************************************************************************)
EXTENDS Integers, Sequences, FiniteSets, TLC

VARIABLES
    logs_dir,           \* file name -> the file's lines (self.logs_dir on disk)
    pc,                 \* position inside generate_final_report
    stdout,             \* what the run printed
    df,                 \* load_logs' DataFrame
    game_stats,         \* analyze_game_stats(df)
    team_roles,         \* analyze_team_roles(df)
    trick_positions,    \* analyze_trick_performance(df)
    position_stats,     \* analyze_position_stats(trick_positions)
    player_performance, \* analyze_player_performance(trick_positions)
    round_efficiency,   \* analyze_round_efficiency(df)
    ai_strategic,       \* analyze_ai_strategic_effectiveness(df)
    efficiency_stats,   \* analyze_efficiency_stats(df)
    final_report,       \* the report being merged / returned
    output_file,        \* main's local_analysis_results.csv: <<>> until written
    filepath,           \* process_logs.py: the file of the latest call
    calls,              \* process_logs.py: calls of process_log_file_in_place
    logs_listing,       \* <<the names in logs/>>, or <<>> when logs/ is missing
    simulation_bucket,  \* upload_logs_to_gcs.py: blob name -> state of the blob
    upload_report,      \* upload_logs_to_gcs.py: what the loop said of each file
    upload_result,      \* upload_logs_to_gcs.py: the latest return value
    authenticated,      \* the credentials can list the project's datasets
    service_account,    \* the tractor-data-transfer service account exists
    iam_roles,          \* the roles granted to the service account
    dataset,            \* the dataset DATASET_ID exists
    table,              \* the table TABLE_ID exists
    staging,            \* the bucket BUCKET_NAME: "absent", "made", "created"
    transfer_jobs,      \* the number of Tractor Data Transfer configs
    setup_pc,           \* position inside BigQuerySetup.run_setup
    setup_result,       \* the latest return value of run_setup
    command,            \* bigquery_main.py: the command of the latest run
    main_pc,            \* bigquery_main.py: position inside main
    main_result,        \* bigquery_main.py: the latest return value of main
    staging_blobs,      \* the blob names in the bucket BUCKET_NAME
    gcs_files,          \* run_upload's gcs_files of the latest run
    transfer_started,   \* the latest run started a manual transfer run
    analysis_started    \* the latest run called run_analysis

vars == <<logs_dir, pc, stdout, df, game_stats, team_roles, trick_positions,
          position_stats, player_performance, round_efficiency, ai_strategic,
          efficiency_stats, final_report, output_file, filepath, calls,
          logs_listing, simulation_bucket, upload_report, upload_result,
          authenticated, service_account, iam_roles, dataset, table, staging,
          transfer_jobs, setup_pc, setup_result, command, main_pc,
          main_result, staging_blobs, gcs_files, transfer_started,
          analysis_started>>

\* The state of the scripts around the pipeline.
normalizer == <<filepath, calls>>

gcs_uploader == <<simulation_bucket, upload_report, upload_result>>

\* The cloud project as bigquery_setup.py sees and changes it.
cloud == <<authenticated, service_account, iam_roles, dataset, table, staging,
           transfer_jobs>>

setup == <<setup_pc, setup_result>>

workflow == <<command, main_pc, main_result, staging_blobs, gcs_files,
              transfer_started, analysis_started>>

tools == <<normalizer, logs_listing, gcs_uploader, cloud, setup, workflow>>

pipeline == <<logs_dir, pc, stdout, df, game_stats, team_roles, trick_positions,
              position_stats, player_performance, round_efficiency,
              ai_strategic, efficiency_stats, final_report, output_file>>

views == <<game_stats, team_roles, trick_positions, position_stats,
           player_performance, round_efficiency, ai_strategic, efficiency_stats>>

(***************************************************************************)
(* Bounds of the model.                                                    *)
(***************************************************************************)
MaxLines == 3

(***************************************************************************)
(* Generic helpers.                                                        *)
(***************************************************************************)
RECURSIVE SumSeq(_)
SumSeq(s) == IF s = <<>> THEN 0 ELSE Head(s) + SumSeq(Tail(s))

RECURSIVE FlattenSeq(_)
FlattenSeq(ss) == IF ss = <<>> THEN <<>> ELSE Head(ss) \o FlattenSeq(Tail(ss))

\* A finite set of strings as a sequence in a fixed (sorted) order.
RECURSIVE SortedSeq(_, _)
SortedSeq(S, order) ==
    IF order = <<>> THEN <<>>
    ELSE (IF Head(order) \in S THEN <<Head(order)>> ELSE <<>>)
         \o SortedSeq(S, Tail(order))

(***************************************************************************)
(* Cells: NaN / None and Python's dict.get.                                *)
(***************************************************************************)
NaN == "NaN"        \* a missing string cell of a DataFrame
None == "None"      \* Python's None for a string-valued payload field
Null == <<>>        \* a missing numeric cell (NaN / None)
Num(n) == <<n>>     \* a numeric cell

IsNull(c) == c = Null
Val(c) == c[1]

\* obj.get(key, default) on a decoded JSON object.
Get(obj, key, default) == IF key \in DOMAIN obj THEN obj[key] ELSE default

\* row[col] of a DataFrame built from dicts: NaN where the dict had no such key.
Col(row, col) == IF col \in DOMAIN row THEN row[col] ELSE NaN

\* col in frame.columns, for a DataFrame built from a list of dicts.
HasColumn(frame, col) == \E i \in 1..Len(frame) : col \in DOMAIN frame[i]

\* numpy's round(x, d) of num/den, kept as an integer in units of 10^-d
\* (scale = 10^d): round half to even.
Round(num, den, scale) ==
    LET q == (num * scale) \div den
        r == (num * scale) % den
    IN  IF 2 * r > den THEN q + 1
        ELSE IF 2 * r < den THEN q
        ELSE IF q % 2 = 0 THEN q ELSE q + 1

(***************************************************************************)
(* load_logs.                                                              *)
(***************************************************************************)
FileNames == {"game1.log", "game2.log", "notes.txt"}

\* os.listdir order is arbitrary: any permutation of the directory's names.
Listings ==
    {o \in [1..Cardinality(FileNames) -> FileNames] :
        \A i, j \in 1..Cardinality(FileNames) : i # j => o[i] # o[j]}

\* filename.endswith('.log')
EndsWithLog(name) == name \in {"game1.log", "game2.log"}

\* json.loads(line.strip()) succeeds.
Decodes(line) == "json" \in DOMAIN line

\* Mutant of load_line: a malformed line leaves a partial record behind.
load_line_keeps_partial(line) ==
    IF Decodes(line) THEN <<line.json>> ELSE <<[timestamp |-> "t"]>>

\* Mutant of load_logs: only the first .log file of the listing is read.
load_logs_first_listed(dir, listing) ==
    LET logs == SelectSeq(listing, LAMBDA f : f \in {"game1.log", "game2.log"})
    IN  IF logs = <<>> THEN <<>>
        ELSE FlattenSeq([i \in 1..Len(dir[logs[1]]) |->
                 IF "json" \in DOMAIN dir[logs[1]][i]
                 THEN <<dir[logs[1]][i].json>> ELSE <<>>])

\* The try block of load_logs for one line: the entries it appends to all_logs.
load_line(line) == IF Decodes(line) THEN <<line.json>> ELSE <<>>

\* load_logs over one file: all_logs entries of that file, in line order.
load_file(lines) == FlattenSeq([i \in 1..Len(lines) |-> load_line(lines[i])])

\* load_logs: pd.DataFrame(all_logs) over the .log files in listing order.
load_logs(dir, listing) ==
    FlattenSeq([i \in 1..Len(listing) |->
        IF EndsWithLog(listing[i]) THEN load_file(dir[listing[i]]) ELSE <<>>])

\* df.empty: no rows, or no columns (every decoded object was {}).
Empty(frame) == \A i \in 1..Len(frame) : DOMAIN frame[i] = {}

(***************************************************************************)
(* Frames, group keys.                                                     *)
(***************************************************************************)
\* The order in which group keys are listed (pandas sorts group keys; the
\* row order of the SQL GROUP BY is unspecified and is modelled the same way).
KeyOrder == <<"v1", "v2", "v3", "p1", "p2", "p3", "p4", "NaN">>

\* The values of column col in frame, as a set.
ColValues(frame, col) == {Col(frame[i], col) : i \in 1..Len(frame)}

\* Keys of a pandas groupby(col): the distinct non-null values, sorted.
GroupKeys(frame, col) == SortedSeq(ColValues(frame, col) \ {NaN, None}, KeyOrder)

\* The event kinds some view selects.
SupportedKinds ==
    {"game_initialized", "game_over", "trick_completed", "attacking_team_victory",
     "defending_team_victory", "kitty_pickup", "ai_leading_decision",
     "ai_following_decision"}

\* Mutant of OfKinds: an event of no supported kind is routed to every view.
OfKinds_routes_unknown(frame, kinds) ==
    SelectSeq(frame, LAMBDA r : \/ Col(r, "event") \in kinds
                                \/ Col(r, "event") \notin SupportedKinds)

\* df[df['event'] == kind] / df[df['event'].isin(kinds)]
OfKinds(frame, kinds) ==
    SelectSeq(frame, LAMBDA r : Col(r, "event") \in kinds)

\* Series.apply(lambda x: x.get(...)) on frame['data'] raises: the frame has
\* no 'data' column (KeyError), or some row's data is NaN (AttributeError).
DataRaises(allrows, rows) ==
    \/ ~HasColumn(allrows, "data")
    \/ \E i \in 1..Len(rows) : "data" \notin DOMAIN rows[i]

\* Series 'count': the number of non-null cells of column col.
CountNotNull(rows, col) == Len(SelectSeq(rows, LAMBDA r : Col(r, col) # NaN))

(***************************************************************************)
(* analyze_game_stats: SELECT appVersion, COUNT(DISTINCT gameId)           *)
(* FROM df WHERE event = 'game_over' GROUP BY appVersion.                  *)
(***************************************************************************)
\* The query fails to bind when a column it names is not in df.
game_stats_raises(frame) ==
    \/ ~HasColumn(frame, "event")
    \/ ~HasColumn(frame, "appVersion")
    \/ ~HasColumn(frame, "gameId")

\* Mutant of DistinctGames: COUNT(gameId), every event counted.
DistinctGames_counts_events(rows) == CountNotNull(rows, "gameId")

\* COUNT(DISTINCT gameId) of a group: NULLs are not counted.
DistinctGames(rows) == Cardinality(ColValues(rows, "gameId") \ {NaN})

\* Mutant of analyze_game_stats: game_initialized events are selected too.
analyze_game_stats_lifecycle(frame) ==
    LET over == OfKinds(frame, {"game_initialized", "game_over"})
        keys == SortedSeq(ColValues(over, "appVersion"), KeyOrder)
    IN  [k \in 1..Len(keys) |->
            [appVersion |-> keys[k],
             total_games |-> Num(DistinctGames(
                 SelectSeq(over, LAMBDA r : Col(r, "appVersion") = keys[k])))]]

analyze_game_stats(frame) ==
    LET over == OfKinds(frame, {"game_over"})
        \* GROUP BY keeps NULL as a group of its own.
        keys == SortedSeq(ColValues(over, "appVersion"), KeyOrder)
    IN  [k \in 1..Len(keys) |->
            [appVersion |-> keys[k],
             total_games |-> Num(DistinctGames(
                 SelectSeq(over, LAMBDA r : Col(r, "appVersion") = keys[k])))]]

(***************************************************************************)
(* analyze_team_roles.                                                     *)
(***************************************************************************)
team_roles_raises(frame) ==
    \/ ~HasColumn(frame, "event")
    \/ DataRaises(frame, OfKinds(frame, {"game_initialized"}))
    \/ DataRaises(frame, OfKinds(frame, {"game_over"}))
    \/ ~HasColumn(frame, "gameId")
    \/ ~HasColumn(frame, "appVersion")

\* A comparison of two object columns: a null on either side compares False.
ObjEq(a, b) == a # None /\ b # None /\ a = b

\* game_init.merge(game_over[['gameId', 'winner']], on='gameId', how='inner')
\* with the attacking_won / defending_won columns: one row per pair of a
\* game_initialized row and a game_over row with the same gameId.
team_roles_merged(frame) ==
    LET game_init == OfKinds(frame, {"game_initialized"})
        game_over == OfKinds(frame, {"game_over"})
        pair(i, o) ==
            [appVersion |-> Col(i, "appVersion"),
             gameId |-> Col(i, "gameId"),
             attacking_won |->
                 IF ObjEq(Get(i.data, "attackingTeam", None),
                          Get(o.data, "winner", None)) THEN 1 ELSE 0,
             defending_won |->
                 IF ObjEq(Get(i.data, "defendingTeam", None),
                          Get(o.data, "winner", None)) THEN 1 ELSE 0]
    IN  FlattenSeq([a \in 1..Len(game_init) |->
            LET matches == SelectSeq(game_over,
                    LAMBDA o : Col(o, "gameId") = Col(game_init[a], "gameId"))
            IN  [b \in 1..Len(matches) |-> pair(game_init[a], matches[b])]])

analyze_team_roles(frame) ==
    LET merged == team_roles_merged(frame)
        keys == GroupKeys(merged, "appVersion")
        group(v) == SelectSeq(merged, LAMBDA r : r.appVersion = v)
    IN  [k \in 1..Len(keys) |->
            LET g == group(keys[k])
            IN  [appVersion |-> keys[k],
                 total_games_with_roles |-> Num(CountNotNull(g, "gameId")),
                 attacking_team_win_rate |->
                     Num(Round(SumSeq([i \in 1..Len(g) |-> g[i].attacking_won]),
                               Len(g), 1000)),
                 defending_team_win_rate |->
                     Num(Round(SumSeq([i \in 1..Len(g) |-> g[i].defending_won]),
                               Len(g), 1000))]]

(***************************************************************************)
(* analyze_trick_performance: the trick flattener.                         *)
(***************************************************************************)
\* df['event'] / tricks['data'] / x.get raise, or a play is reached and
\* row['appVersion'] / row['gameId'] is no column of the frame.
trick_performance_raises(frame) ==
    \/ ~HasColumn(frame, "event")
    \/ DataRaises(frame, OfKinds(frame, {"trick_completed"}))
    \/ /\ \E i \in 1..Len(frame) :
              /\ Col(frame[i], "event") = "trick_completed"
              /\ Get(frame[i].data, "allPlays", <<>>) # <<>>
       /\ (~HasColumn(frame, "appVersion") \/ ~HasColumn(frame, "gameId"))

\* Mutant of flatten_trick: seat positions numbered from 0.
flatten_trick_zero_based(row) ==
    LET all_plays == Get(row.data, "allPlays", <<>>)
        winningPlayer == Get(row.data, "winningPlayer", None)
    IN  [i \in 1..Len(all_plays) |->
            [appVersion |-> Col(row, "appVersion"),
             gameId |-> Col(row, "gameId"),
             winningPlayer |-> winningPlayer,
             trickPoints |-> Get(row.data, "trickPoints", 0),
             playerId |-> Get(all_plays[i], "playerId", None),
             trickPosition |-> i - 1,
             wonTrick |-> Get(all_plays[i], "playerId", None) = winningPlayer]]

\* Mutant of flatten_trick: wonTrick compared column-wise, where a missing
\* playerId never equals a missing winningPlayer.
flatten_trick_null_unequal(row) ==
    LET all_plays == Get(row.data, "allPlays", <<>>)
        winningPlayer == Get(row.data, "winningPlayer", None)
    IN  [i \in 1..Len(all_plays) |->
            [appVersion |-> Col(row, "appVersion"),
             gameId |-> Col(row, "gameId"),
             winningPlayer |-> winningPlayer,
             trickPoints |-> Get(row.data, "trickPoints", 0),
             playerId |-> Get(all_plays[i], "playerId", None),
             trickPosition |-> i,
             wonTrick |-> ObjEq(Get(all_plays[i], "playerId", None), winningPlayer)]]

\* The observations of one trick_completed row: one per play, in list order.
flatten_trick(row) ==
    LET all_plays == Get(row.data, "allPlays", <<>>)
        winningPlayer == Get(row.data, "winningPlayer", None)
    IN  [i \in 1..Len(all_plays) |->
            [appVersion |-> Col(row, "appVersion"),
             gameId |-> Col(row, "gameId"),
             winningPlayer |-> winningPlayer,
             trickPoints |-> Get(row.data, "trickPoints", 0),
             playerId |-> Get(all_plays[i], "playerId", None),
             trickPosition |-> i,
             wonTrick |-> Get(all_plays[i], "playerId", None) = winningPlayer]]

analyze_trick_performance(frame) ==
    LET tricks == OfKinds(frame, {"trick_completed"})
    IN  FlattenSeq([t \in 1..Len(tricks) |-> flatten_trick(tricks[t])])

(***************************************************************************)
(* analyze_position_stats / analyze_player_performance.                    *)
(***************************************************************************)
\* Mutant of TricksWon: every observation of the group counts as won.
TricksWon_counts_all(g) == Len(g)

\* sum of wonTrick over a group
TricksWon(g) == Len(SelectSeq(g, LAMBDA o : o.wonTrick))

\* (x * wonTrick).sum(): the trickPoints of the group's winning observations
PointsWon(g) ==
    SumSeq([i \in 1..Len(g) |-> IF g[i].wonTrick THEN g[i].trickPoints ELSE 0])

\* The positions occurring in obs, in increasing order.
RECURSIVE PositionsUpTo(_, _)
PositionsUpTo(obs, n) ==
    IF n = 0 THEN <<>>
    ELSE PositionsUpTo(obs, n - 1) \o
         (IF \E i \in 1..Len(obs) : obs[i].trickPosition = n THEN <<n>> ELSE <<>>)

MaxPosition(obs) ==
    IF obs = <<>> THEN 0
    ELSE CHOOSE n \in {obs[i].trickPosition : i \in 1..Len(obs)} :
             \A i \in 1..Len(obs) : obs[i].trickPosition <= n

\* Mutant of NUniqueVersions: the round estimate is not divided by the
\* number of versions.
NUniqueVersions_one(obs) == 1

\* len(trick_positions['appVersion'].unique()): NaN counts as a value.
NUniqueVersions(obs) == Cardinality({obs[i].appVersion : i \in 1..Len(obs)})

analyze_position_stats(obs) ==
    IF obs = <<>> THEN <<>>
    ELSE
    LET vs == GroupKeys(obs, "appVersion")
        ps == PositionsUpTo(obs, MaxPosition(obs))
        group(v, p) ==
            SelectSeq(obs, LAMBDA o : o.appVersion = v /\ o.trickPosition = p)
        \* total_rounds_approx = len / 4 / nunique, so that
        \* points / total_rounds_approx = points * 4 * nunique / len
        row(v, p) ==
            LET g == group(v, p)
                won == TricksWon(g)
                points == PointsWon(g)
            IN  [appVersion |-> v,
                 trickPosition |-> p,
                 total_tricks_at_position |-> Num(Len(g)),
                 tricks_won_at_position |-> Num(won),
                 points_won_at_position |-> Num(points),
                 position_win_rate |-> Num(Round(won, Len(g), 1000)),
                 avg_points_when_winning |->
                     Num(Round(points, IF won = 0 THEN 1 ELSE won, 100)),
                 avg_points_per_round |->
                     Num(Round(points * 4 * NUniqueVersions(obs), Len(obs), 100))]
    IN  FlattenSeq([v \in 1..Len(vs) |->
            FlattenSeq([p \in 1..Len(ps) |->
                IF group(vs[v], ps[p]) = <<>> THEN <<>>
                ELSE <<row(vs[v], ps[p])>>])])

analyze_player_performance(obs) ==
    IF obs = <<>> THEN <<>>
    ELSE
    LET vs == GroupKeys(obs, "appVersion")
        ps == GroupKeys(obs, "playerId")
        group(v, p) ==
            SelectSeq(obs, LAMBDA o : o.appVersion = v /\ o.playerId = p)
        row(v, p) ==
            LET g == group(v, p)
            IN  [appVersion |-> v,
                 playerId |-> p,
                 total_tricks |-> Num(Len(g)),
                 tricks_won |-> Num(TricksWon(g)),
                 total_points_won |-> Num(PointsWon(g)),
                 player_win_rate |-> Num(Round(TricksWon(g), Len(g), 1000)),
                 avg_points_per_trick |-> Num(Round(PointsWon(g), Len(g), 100))]
    IN  FlattenSeq([v \in 1..Len(vs) |->
            FlattenSeq([p \in 1..Len(ps) |->
                IF group(vs[v], ps[p]) = <<>> THEN <<>>
                ELSE <<row(vs[v], ps[p])>>])])

(***************************************************************************)
(* analyze_round_efficiency.                                               *)
(***************************************************************************)
RoundKinds == {"attacking_team_victory", "defending_team_victory"}

round_efficiency_raises(frame) ==
    \/ ~HasColumn(frame, "event")
    \/ /\ OfKinds(frame, RoundKinds) # <<>>
       /\ \/ DataRaises(frame, OfKinds(frame, RoundKinds))
          \/ ~HasColumn(frame, "appVersion")
          \/ ~HasColumn(frame, "gameId")

\* Mutant of final_points: finalPoints whatever the kind of the round.
final_points_of_any_kind(row) == Get(row.data, "finalPoints", 0)

\* rounds['final_points']: finalPoints of an attacking victory,
\* attackingTeamPoints of a defending victory, 0 when the field is missing.
final_points(row) ==
    IF Col(row, "event") = "attacking_team_victory"
    THEN Get(row.data, "finalPoints", 0)
    ELSE Get(row.data, "attackingTeamPoints", 0)

\* Series.mean() of final_points over rows, rounded to 1 decimal (in tenths).
MeanFinalPoints(rows) ==
    Round(SumSeq([i \in 1..Len(rows) |-> final_points(rows[i])]), Len(rows), 10)

\* The avg_attacking_win_points / avg_defending_win_points column: the
\* constant 0 when no round of any version is of that kind, otherwise the
\* left merge of the per-version means (NaN for a version without such rounds).
win_points_column(rounds, kind, v) ==
    LET wins == OfKinds(rounds, {kind})
        mine == SelectSeq(wins, LAMBDA r : Col(r, "appVersion") = v)
    IN  IF wins = <<>> THEN Num(0)
        ELSE IF mine = <<>> THEN Null
        ELSE Num(MeanFinalPoints(mine))

analyze_round_efficiency(frame) ==
    LET rounds == OfKinds(frame, RoundKinds)
        keys == GroupKeys(rounds, "appVersion")
    IN  IF rounds = <<>> THEN <<>>
        ELSE [k \in 1..Len(keys) |->
            LET g == SelectSeq(rounds, LAMBDA r : Col(r, "appVersion") = keys[k])
            IN  [appVersion |-> keys[k],
                 total_rounds |-> Num(CountNotNull(g, "gameId")),
                 avg_final_points |-> Num(MeanFinalPoints(g)),
                 attacking_round_win_rate |->
                     Num(Round(Len(OfKinds(g, {"attacking_team_victory"})),
                               Len(g), 1000)),
                 avg_attacking_win_points |->
                     win_points_column(rounds, "attacking_team_victory", keys[k]),
                 avg_defending_win_points |->
                     win_points_column(rounds, "defending_team_victory", keys[k])]]

(***************************************************************************)
(* analyze_ai_strategic_effectiveness.                                     *)
(***************************************************************************)
AiKinds == {"ai_leading_decision", "ai_following_decision"}

AiPositions == <<"first", "second", "third", "fourth">>

ai_strategic_raises(frame) ==
    \/ ~HasColumn(frame, "event")
    \/ /\ OfKinds(frame, AiKinds) # <<>>
       /\ \/ /\ HasColumn(frame, "data")
             /\ \E i \in 1..Len(frame) :
                    Col(frame[i], "event") \in AiKinds /\ "data" \notin DOMAIN frame[i]
          \/ ~HasColumn(frame, "appVersion")

\* One entry of `results` for an AI decision row.
ai_result(row) ==
    LET data == Get(row, "data", [x \in {} |-> 0])
        context == Get(data, "context", [x \in {} |-> 0])
    IN  [appVersion |-> Col(row, "appVersion"),
         player |-> Get(data, "player", None),
         is_attacking |-> Get(context, "isAttackingTeam", FALSE),
         trick_position |-> Get(context, "trickPosition", "unknown"),
         has_reasoning |-> Len(Get(data, "reasoning", <<>>)) > 0,
         decision_score |-> Get(data, "score", 0),
         is_leading |-> Col(row, "event") = "ai_leading_decision"]

analyze_ai_strategic_effectiveness(frame) ==
    LET ai_events == OfKinds(frame, AiKinds)
        strategic_df == [i \in 1..Len(ai_events) |-> ai_result(ai_events[i])]
        keys == GroupKeys(strategic_df, "appVersion")
        score_sum(g) == SumSeq([i \in 1..Len(g) |-> g[i].decision_score])
        \* the pivot of the per-(version, trick_position) mean score: absent
        \* column when no version has the position, NaN for a version without
        \* it (the code leaves this mean unrounded; kept here in thousandths)
        pivot(v, pos) ==
            LET g == SelectSeq(strategic_df,
                         LAMBDA r : r.appVersion = v /\ r.trick_position = pos)
            IN  IF g = <<>> THEN Null ELSE Num(Round(score_sum(g), Len(g), 1000))
        has_pos(pos) ==
            \E i \in 1..Len(strategic_df) :
                /\ strategic_df[i].trick_position = pos
                /\ strategic_df[i].appVersion \notin {NaN, None}
        base(v) ==
            LET g == SelectSeq(strategic_df, LAMBDA r : r.appVersion = v)
            IN  [appVersion |-> v,
                 avg_decision_score |-> Num(Round(score_sum(g), Len(g), 1000)),
                 reasoning_rate |->
                     Num(Round(Len(SelectSeq(g, LAMBDA r : r.has_reasoning)),
                               Len(g), 1000)),
                 attacking_decision_rate |->
                     Num(Round(Len(SelectSeq(g, LAMBDA r : r.is_attacking)),
                               Len(g), 1000)),
                 leading_decision_rate |->
                     Num(Round(Len(SelectSeq(g, LAMBDA r : r.is_leading)),
                               Len(g), 1000)),
                 total_decisions |->
                     Num(Len(SelectSeq(g, LAMBDA r : r.player # None)))]
        cols == {"appVersion", "avg_decision_score", "reasoning_rate",
                 "attacking_decision_rate", "leading_decision_rate",
                 "total_decisions"}
        poscol(i) ==
            CASE i = 1 -> "first_position_score"
              [] i = 2 -> "second_position_score"
              [] i = 3 -> "third_position_score"
              [] OTHER -> "fourth_position_score"
        poscols == {poscol(i) : i \in {j \in 1..4 : has_pos(AiPositions[j])}}
    IN  IF ai_events = <<>> THEN <<>>
        ELSE [k \in 1..Len(keys) |->
            [c \in cols \cup poscols |->
                IF c \in cols THEN base(keys[k])[c]
                ELSE pivot(keys[k],
                           AiPositions[CHOOSE i \in 1..4 : poscol(i) = c])]]

(***************************************************************************)
(* analyze_efficiency_stats.                                               *)
(***************************************************************************)
efficiency_stats_raises(frame) ==
    \/ ~HasColumn(frame, "event")
    \/ /\ OfKinds(frame, {"kitty_pickup"}) # <<>>
       /\ \/ DataRaises(frame, OfKinds(frame, {"kitty_pickup"}))
          \/ ~HasColumn(frame, "appVersion")
          \/ ~HasColumn(frame, "gameId")

analyze_efficiency_stats(frame) ==
    LET kitty_events == OfKinds(frame, {"kitty_pickup"})
        keys == GroupKeys(kitty_events, "appVersion")
    IN  IF kitty_events = <<>> THEN <<>>
        ELSE [k \in 1..Len(keys) |->
            LET g == SelectSeq(kitty_events,
                         LAMBDA r : Col(r, "appVersion") = keys[k])
            IN  [appVersion |-> keys[k],
                 avg_kitty_points |->
                     Num(Round(SumSeq([i \in 1..Len(g) |->
                                   Get(g[i].data, "kittyPoints", 0)]),
                               Len(g), 100)),
                 kitty_events |-> Num(CountNotNull(g, "gameId"))]]

(***************************************************************************)
(* generate_final_report: the merge steps.                                 *)
(***************************************************************************)
Inf == <<1, 0>>     \* the cell x / 0 (numpy's inf)

\* Mutant of left_merge: a missing match is filled with 0.
left_merge_fill_zero(left, right, cols) ==
    LET extend(l, r) ==
            [c \in DOMAIN l \cup cols |-> IF c \in cols THEN r[c] ELSE l[c]]
        blank(l) ==
            [c \in DOMAIN l \cup cols |-> IF c \in cols THEN Num(0) ELSE l[c]]
    IN  FlattenSeq([i \in 1..Len(left) |->
            LET matches == SelectSeq(right,
                    LAMBDA r : r.appVersion = left[i].appVersion)
            IN  IF matches = <<>> THEN <<blank(left[i])>>
                ELSE [j \in 1..Len(matches) |-> extend(left[i], matches[j])]])

\* Mutant of left_merge: how='outer', the versions of the right side that
\* the left side lacks get a row of their own.
left_merge_outer(left, right, cols) ==
    LET extend(l, r) ==
            [c \in DOMAIN l \cup cols |-> IF c \in cols THEN r[c] ELSE l[c]]
        blank(l) ==
            [c \in DOMAIN l \cup cols |-> IF c \in cols THEN Null ELSE l[c]]
        only_right == SelectSeq(right,
            LAMBDA r : \A i \in 1..Len(left) : left[i].appVersion # r.appVersion)
    IN  FlattenSeq([i \in 1..Len(left) |->
            LET matches == SelectSeq(right,
                    LAMBDA r : r.appVersion = left[i].appVersion)
            IN  IF matches = <<>> THEN <<blank(left[i])>>
                ELSE [j \in 1..Len(matches) |-> extend(left[i], matches[j])]])
        \o [k \in 1..Len(only_right) |->
               [c \in {"appVersion", "total_games"} \cup cols |->
                   IF c = "total_games" THEN Null ELSE only_right[k][c]]]

\* left.merge(right[['appVersion'] + cols], on='appVersion', how='left'):
\* each left row once per right row with its appVersion, or once with NaN
\* in cols when there is none.
left_merge(left, right, cols) ==
    LET extend(l, r) ==
            [c \in DOMAIN l \cup cols |-> IF c \in cols THEN r[c] ELSE l[c]]
        blank(l) ==
            [c \in DOMAIN l \cup cols |-> IF c \in cols THEN Null ELSE l[c]]
    IN  FlattenSeq([i \in 1..Len(left) |->
            LET matches == SelectSeq(right,
                    LAMBDA r : r.appVersion = left[i].appVersion)
            IN  IF matches = <<>> THEN <<blank(left[i])>>
                ELSE [j \in 1..Len(matches) |-> extend(left[i], matches[j])]])

TeamRoleColumns == {"attacking_team_win_rate", "defending_team_win_rate"}

RoundColumns == {"total_rounds", "avg_final_points", "attacking_round_win_rate",
                 "avg_attacking_win_points", "avg_defending_win_points"}

AiColumns == {"avg_decision_score", "reasoning_rate", "attacking_decision_rate"}

PositionMetrics == <<"position_win_rate", "avg_points_when_winning",
                     "avg_points_per_round">>

\* col_name of (metric, pos) after the three replace() calls
position_col_name ==
    [position_win_rate |->
        <<"position_1_win_rate", "position_2_win_rate",
          "position_3_win_rate", "position_4_win_rate">>,
     avg_points_when_winning |->
        <<"position_1_avg_points", "position_2_avg_points",
          "position_3_avg_points", "position_4_avg_points">>,
     avg_points_per_round |->
        <<"position_1_points_per_round", "position_2_points_per_round",
          "position_3_points_per_round", "position_4_points_per_round">>]

\* (final_report['total_rounds'] / final_report['total_games']).round(1)
avg_rounds_per_game(row) ==
    IF IsNull(row.total_rounds) THEN Null
    ELSE IF Val(row.total_games) = 0
         THEN (IF Val(row.total_rounds) = 0 THEN Null ELSE Inf)
    ELSE Num(Round(Val(row.total_rounds), Val(row.total_games), 10))

merge_team_roles(report, roles) ==
    IF roles # <<>> THEN left_merge(report, roles, TeamRoleColumns) ELSE report

merge_round_efficiency(report, rounds) ==
    IF rounds # <<>>
    THEN LET merged == left_merge(report, rounds, RoundColumns)
         IN  [i \in 1..Len(merged) |->
                [c \in DOMAIN merged[i] \cup {"avg_rounds_per_game"} |->
                    IF c = "avg_rounds_per_game"
                    THEN avg_rounds_per_game(merged[i]) ELSE merged[i][c]]]
    ELSE report

\* Mutant of pivot_cell: a version the pivot lacks is filled with 0.
pivot_cell_fill_zero(stats, metric, pos, v) ==
    LET hit == SelectSeq(stats,
                   LAMBDA r : r.appVersion = v /\ r.trickPosition = pos)
    IN  IF hit = <<>> THEN Num(0) ELSE hit[1][metric]

\* position_pivot[(metric, pos)] looked up for a version:
\* final_report['appVersion'].map(...)
pivot_cell(stats, metric, pos, v) ==
    LET hit == SelectSeq(stats,
                   LAMBDA r : r.appVersion = v /\ r.trickPosition = pos)
    IN  IF hit = <<>> THEN Null ELSE hit[1][metric]

\* the (metric, pos) pairs that are columns of position_pivot, by column name
pivot_columns(stats) ==
    {position_col_name[PositionMetrics[m]][p] :
        m \in 1..3,
        p \in {q \in 1..4 : \E i \in 1..Len(stats) : stats[i].trickPosition = q}}

merge_position_stats(report, stats) ==
    IF stats # <<>>
    THEN [i \in 1..Len(report) |->
            [c \in DOMAIN report[i] \cup pivot_columns(stats) |->
                IF c \in pivot_columns(stats)
                THEN LET m == CHOOSE m \in 1..3 :
                                  \E p \in 1..4 :
                                      position_col_name[PositionMetrics[m]][p] = c
                         p == CHOOSE p \in 1..4 :
                                  position_col_name[PositionMetrics[m]][p] = c
                     IN  pivot_cell(stats, PositionMetrics[m], p,
                                    report[i].appVersion)
                ELSE report[i][c]]]
    ELSE report

\* Mutant of merge_efficiency_stats: every column of the view is merged.
merge_efficiency_stats_all_columns(report, stats) ==
    IF stats # <<>>
    THEN left_merge(report, stats, {"avg_kitty_points", "kitty_events"})
    ELSE report

merge_efficiency_stats(report, stats) ==
    IF stats # <<>> THEN left_merge(report, stats, {"avg_kitty_points"})
    ELSE report

\* Mutant of merge_ai_strategic: no else branch, an empty AI view adds nothing.
merge_ai_strategic_no_else(report, ai) ==
    IF ai # <<>> THEN left_merge(report, ai, AiColumns) ELSE report

merge_ai_strategic(report, ai) ==
    IF ai # <<>> THEN left_merge(report, ai, AiColumns)
    ELSE [i \in 1..Len(report) |->
            [c \in DOMAIN report[i] \cup AiColumns |->
                IF c \in AiColumns THEN Null ELSE report[i][c]]]

\* generate_final_report after the empty check, as a function of df: some
\* analyze_* call raises ...
report_raises(frame) ==
    \/ game_stats_raises(frame)
    \/ team_roles_raises(frame)
    \/ trick_performance_raises(frame)
    \/ round_efficiency_raises(frame)
    \/ ai_strategic_raises(frame)
    \/ efficiency_stats_raises(frame)

\* ... or the report it returns.
final_report_of(frame) ==
    LET obs == analyze_trick_performance(frame)
        with_roles == merge_team_roles(analyze_game_stats(frame),
                                       analyze_team_roles(frame))
        with_rounds == merge_round_efficiency(with_roles,
                                              analyze_round_efficiency(frame))
        with_positions == merge_position_stats(with_rounds,
                                               analyze_position_stats(obs))
        with_kitty == merge_efficiency_stats(with_positions,
                                             analyze_efficiency_stats(frame))
    IN  merge_ai_strategic(with_kitty, analyze_ai_strategic_effectiveness(frame))

(***************************************************************************)
(* The state machine: the log directory is written, then one run of        *)
(* generate_final_report goes through its steps in program order.          *)
(***************************************************************************)
\* The names the simulations leave in logs/ for the uploaders.
UploadNames == {"sim1.log.gz", "sim2.log.gz", "sim3.log"}

\* The report of a run of upload_logs_to_gcs that did not reach its loop.
NoReport == [n \in {} |-> "none"]

Said(msg, n) == [msg |-> msg, n |-> n]

\* The names of the directory, in a fixed order.
LogFileOrder == <<"game1.log", "game2.log", "notes.txt">>

\* The number of lines written to the directory so far.
TotalLines == SumSeq([i \in 1..Len(LogFileOrder) |-> Len(logs_dir[LogFileOrder[i]])])

Init ==
    /\ logs_dir = [f \in FileNames |-> <<>>]
    /\ pc = "idle"
    /\ stdout = <<>>
    /\ df = <<>>
    /\ game_stats = <<>>
    /\ team_roles = <<>>
    /\ trick_positions = <<>>
    /\ position_stats = <<>>
    /\ player_performance = <<>>
    /\ round_efficiency = <<>>
    /\ ai_strategic = <<>>
    /\ efficiency_stats = <<>>
    /\ final_report = <<>>
    /\ output_file = <<>>
    /\ filepath = ""
    /\ calls = 0
    /\ logs_listing = <<>>
    /\ simulation_bucket = [n \in UploadNames |-> "absent"]
    /\ upload_report = NoReport
    /\ upload_result = "None"
    /\ authenticated = FALSE
    /\ service_account = FALSE
    /\ iam_roles = {}
    /\ dataset = FALSE
    /\ table = FALSE
    /\ staging = "absent"
    /\ transfer_jobs = 0
    /\ setup_pc = "idle"
    /\ setup_result = "None"
    /\ command = ""
    /\ main_pc = "idle"
    /\ main_result = "None"
    /\ staging_blobs = {}
    /\ gcs_files = {}
    /\ transfer_started = FALSE
    /\ analysis_started = FALSE

\* bigquery_setup.py: run_setup starts while fewer transfer configs exist.
MaxJobs == 2

\* process_logs.py: the calls of process_log_file_in_place are bounded.
MaxCalls == 2

\* The simulator appends one line, one of `universe`, to a file of `files`.
WriteLine(universe, files) ==
    /\ pc = "idle"
    /\ TotalLines < MaxLines
    /\ \E f \in files, i \in 1..Len(universe) :
           logs_dir' = [logs_dir EXCEPT ![f] = Append(@, universe[i])]
    /\ UNCHANGED <<tools, pc, stdout, df, views, final_report, output_file>>

\* generate_final_report, lines 291-296: load_logs and the empty check.
LoadLogs ==
    /\ pc = "idle"
    /\ \E listing \in Listings :
        LET loaded == load_logs(logs_dir, listing)
            nfiles == Cardinality({f \in FileNames : EndsWithLog(f)})
        IN  /\ df' = loaded
            /\ IF Empty(loaded)
               THEN /\ stdout' = stdout \o <<Said("Loading log files...", 0),
                                             Said("Loaded entries", Len(loaded)),
                                             Said("No log data found!", 0)>>
                    /\ pc' = "returned"
               ELSE /\ stdout' = stdout \o <<Said("Loading log files...", 0),
                                             Said("Loaded entries", Len(loaded))>>
                    /\ pc' = "game_stats"
    /\ UNCHANGED <<tools, output_file, logs_dir, views, final_report>>

\* One analyze_* call of generate_final_report: its print, then either the
\* exception leaves the run (pc = "raised") or the view is stored.
AnalyzeGameStats ==
    /\ pc = "game_stats"
    /\ stdout' = Append(stdout, Said("Analyzing game statistics...", 0))
    /\ IF game_stats_raises(df)
       THEN pc' = "raised" /\ UNCHANGED game_stats
       ELSE pc' = "team_roles" /\ game_stats' = analyze_game_stats(df)
    /\ UNCHANGED <<tools, output_file, logs_dir, df, team_roles, trick_positions, position_stats,
                   player_performance, round_efficiency, ai_strategic,
                   efficiency_stats, final_report>>

AnalyzeTeamRoles ==
    /\ pc = "team_roles"
    /\ stdout' = Append(stdout, Said("Analyzing team performance...", 0))
    /\ IF team_roles_raises(df)
       THEN pc' = "raised" /\ UNCHANGED team_roles
       ELSE pc' = "trick_performance" /\ team_roles' = analyze_team_roles(df)
    /\ UNCHANGED <<tools, output_file, logs_dir, df, game_stats, trick_positions, position_stats,
                   player_performance, round_efficiency, ai_strategic,
                   efficiency_stats, final_report>>

AnalyzeTrickPerformance ==
    /\ pc = "trick_performance"
    /\ stdout' = Append(stdout, Said("Analyzing trick performance...", 0))
    /\ IF trick_performance_raises(df)
       THEN pc' = "raised" /\ UNCHANGED trick_positions
       ELSE /\ pc' = "position_stats"
            /\ trick_positions' = analyze_trick_performance(df)
    /\ UNCHANGED <<tools, output_file, logs_dir, df, game_stats, team_roles, position_stats,
                   player_performance, round_efficiency, ai_strategic,
                   efficiency_stats, final_report>>

\* Mutant of AnalyzePositionStats: the position view starts before the
\* flattener has run.
AnalyzePositionStats_early ==
    /\ pc = "trick_performance"
    /\ stdout' = Append(stdout, Said("Analyzing position statistics...", 0))
    /\ pc' = "player_performance"
    /\ position_stats' = analyze_position_stats(trick_positions)
    /\ UNCHANGED <<tools, output_file, logs_dir, df, game_stats, team_roles, trick_positions,
                   player_performance, round_efficiency, ai_strategic,
                   efficiency_stats, final_report>>

AnalyzePositionStats ==
    /\ pc = "position_stats"
    /\ stdout' = Append(stdout, Said("Analyzing position statistics...", 0))
    /\ pc' = "player_performance"
    /\ position_stats' = analyze_position_stats(trick_positions)
    /\ UNCHANGED <<tools, output_file, logs_dir, df, game_stats, team_roles, trick_positions,
                   player_performance, round_efficiency, ai_strategic,
                   efficiency_stats, final_report>>

AnalyzePlayerPerformance ==
    /\ pc = "player_performance"
    /\ stdout' = Append(stdout, Said("Analyzing player performance...", 0))
    /\ pc' = "round_efficiency"
    /\ player_performance' = analyze_player_performance(trick_positions)
    /\ UNCHANGED <<tools, output_file, logs_dir, df, game_stats, team_roles, trick_positions,
                   position_stats, round_efficiency, ai_strategic,
                   efficiency_stats, final_report>>

AnalyzeRoundEfficiency ==
    /\ pc = "round_efficiency"
    /\ stdout' = Append(stdout, Said("Analyzing round efficiency...", 0))
    /\ IF round_efficiency_raises(df)
       THEN pc' = "raised" /\ UNCHANGED round_efficiency
       ELSE /\ pc' = "ai_strategic"
            /\ round_efficiency' = analyze_round_efficiency(df)
    /\ UNCHANGED <<tools, output_file, logs_dir, df, game_stats, team_roles, trick_positions,
                   position_stats, player_performance, ai_strategic,
                   efficiency_stats, final_report>>

AnalyzeAiStrategic ==
    /\ pc = "ai_strategic"
    /\ stdout' = Append(stdout, Said("Analyzing AI decisions...", 0))
    /\ IF ai_strategic_raises(df)
       THEN pc' = "raised" /\ UNCHANGED ai_strategic
       ELSE /\ pc' = "efficiency_stats"
            /\ ai_strategic' = analyze_ai_strategic_effectiveness(df)
    /\ UNCHANGED <<tools, output_file, logs_dir, df, game_stats, team_roles, trick_positions,
                   position_stats, player_performance, round_efficiency,
                   efficiency_stats, final_report>>

\* analyze_efficiency_stats, then final_report = game_stats.copy()
AnalyzeEfficiencyStats ==
    /\ pc = "efficiency_stats"
    /\ stdout' = Append(stdout, Said("Analyzing efficiency metrics...", 0))
    /\ IF efficiency_stats_raises(df)
       THEN pc' = "raised" /\ UNCHANGED <<efficiency_stats, final_report>>
       ELSE /\ pc' = "merge_team_roles"
            /\ efficiency_stats' = analyze_efficiency_stats(df)
            /\ final_report' = game_stats
    /\ UNCHANGED <<tools, output_file, logs_dir, df, game_stats, team_roles, trick_positions,
                   position_stats, player_performance, round_efficiency,
                   ai_strategic>>

\* The merge steps, lines 325-363.
MergeTeamRoles ==
    /\ pc = "merge_team_roles"
    /\ final_report' = merge_team_roles(final_report, team_roles)
    /\ pc' = "merge_round_efficiency"
    /\ UNCHANGED <<tools, output_file, logs_dir, stdout, df, views>>

MergeRoundEfficiency ==
    /\ pc = "merge_round_efficiency"
    /\ final_report' = merge_round_efficiency(final_report, round_efficiency)
    /\ pc' = "merge_position_stats"
    /\ UNCHANGED <<tools, output_file, logs_dir, stdout, df, views>>

MergePositionStats ==
    /\ pc = "merge_position_stats"
    /\ final_report' = merge_position_stats(final_report, position_stats)
    /\ pc' = "merge_efficiency_stats"
    /\ UNCHANGED <<tools, output_file, logs_dir, stdout, df, views>>

MergeEfficiencyStats ==
    /\ pc = "merge_efficiency_stats"
    /\ final_report' = merge_efficiency_stats(final_report, efficiency_stats)
    /\ pc' = "merge_ai_strategic"
    /\ UNCHANGED <<tools, output_file, logs_dir, stdout, df, views>>

\* The last merge, the closing print and the return.
MergeAiStrategic ==
    /\ pc = "merge_ai_strategic"
    /\ final_report' = merge_ai_strategic(final_report, ai_strategic)
    /\ stdout' = Append(stdout, Said("Analysis complete!", Len(final_report')))
    /\ pc' = "returned"
    /\ UNCHANGED <<tools, output_file, logs_dir, df, views>>

\* main, lines 379-390: report_df.empty ends the run with the "no data"
\* message and no file; otherwise the report is saved as the CSV.
Main ==
    /\ pc = "returned"
    /\ IF final_report = <<>>
       THEN /\ stdout' = Append(stdout, Said("No data to analyze", 0))
            /\ UNCHANGED output_file
       ELSE /\ stdout' = Append(stdout, Said("Analysis results saved", 0))
            /\ output_file' = <<final_report>>
    /\ pc' = "exited"
    /\ UNCHANGED <<tools, logs_dir, df, views, final_report>>

GenerateFinalReport ==
    \/ LoadLogs
    \/ AnalyzeGameStats
    \/ AnalyzeTeamRoles
    \/ AnalyzeTrickPerformance
    \/ AnalyzePositionStats
    \/ AnalyzePlayerPerformance
    \/ AnalyzeRoundEfficiency
    \/ AnalyzeAiStrategic
    \/ AnalyzeEfficiencyStats
    \/ MergeTeamRoles
    \/ MergeRoundEfficiency
    \/ MergePositionStats
    \/ MergeEfficiencyStats
    \/ MergeAiStrategic
    \/ Main

(***************************************************************************)
(* process_logs.py: process_log_file_in_place.                             *)
(*   A line json.loads accepts whose document is not an object (a number,  *)
(*   a string, a list, null) is [scalar |-> v]; a line that is empty after *)
(*   strip() is [bad |-> "blank"]; a line written by json.dumps carries    *)
(*   dumped |-> TRUE.                                                      *)
(***************************************************************************)
\* not line, after line.strip()
IsBlank(line) == "bad" \in DOMAIN line /\ line.bad = "blank"

\* json.loads(line) returns a document that is not a dict.
IsScalar(line) == "scalar" \in DOMAIN line

\* data['sequenceNumber'] = sequence_number
stamp(data, n) ==
    [k \in DOMAIN data \cup {"sequenceNumber"} |->
        IF k = "sequenceNumber" THEN n ELSE data[k]]

\* Mutant of keeps_original: the file is rewritten even with no valid line.
keeps_original_never(processed_lines) == FALSE

\* `if processed_lines:` fails: nothing is written.
keeps_original(processed_lines) == processed_lines = <<>>

\* Mutant of next_sequence_number: every non-blank line takes a number.
next_sequence_number_of_any_line(line, sequence_number) ==
    sequence_number + 1

\* sequence_number += 1, reached only when json.loads accepted the line.
next_sequence_number(line, sequence_number) ==
    IF Decodes(line) \/ IsScalar(line)
    THEN sequence_number + 1 ELSE sequence_number

\* The loop over the lines of the file, lines 18-29: blank lines are passed
\* over, a line json.loads rejects is reported and passed over, a decoded
\* object is stamped and kept; the item assignment on a document that is
\* not a dict raises TypeError, which leaves the loop.
RECURSIVE read_lines(_, _, _, _)
read_lines(lines, sequence_number, processed_lines, skipped) ==
    IF lines = <<>>
    THEN [processed_lines |-> processed_lines, skipped |-> skipped,
          raised |-> FALSE]
    ELSE LET line == Head(lines)
             n == next_sequence_number(line, sequence_number)
         IN  IF IsBlank(line)
             THEN read_lines(Tail(lines), sequence_number, processed_lines, skipped)
             ELSE IF Decodes(line)
             THEN read_lines(Tail(lines), n,
                      Append(processed_lines,
                             [json |-> stamp(line.json, n), dumped |-> TRUE]),
                      skipped)
             ELSE IF IsScalar(line)
             THEN [processed_lines |-> processed_lines, skipped |-> skipped,
                   raised |-> TRUE]
             ELSE read_lines(Tail(lines), n, processed_lines, skipped + 1)

\* One call process_log_file_in_place(f), made by main for a name that
\* ends with ".log".  Opening or reading the file may fail (io_error).
process_log_file_in_place(f) ==
    /\ calls < MaxCalls
    /\ EndsWithLog(f)
    /\ \E io_error \in BOOLEAN :
           LET read == read_lines(logs_dir[f], 0, <<>>, 0)
               skips == [i \in 1..read.skipped |->
                            Said("Skipping malformed JSON line", 0)]
           IN  IF io_error
               THEN /\ stdout' = stdout \o <<Said("Processing in place", 0),
                                             Said("Error reading", 0)>>
                    /\ UNCHANGED logs_dir
               ELSE IF read.raised
               THEN /\ stdout' = stdout \o <<Said("Processing in place", 0)>>
                                       \o skips \o <<Said("Error reading", 0)>>
                    /\ UNCHANGED logs_dir
               ELSE IF keeps_original(read.processed_lines)
               THEN /\ stdout' = stdout \o <<Said("Processing in place", 0)>>
                                       \o skips
                                       \o <<Said("No valid lines processed", 0)>>
                    /\ UNCHANGED logs_dir
               ELSE /\ stdout' = stdout \o <<Said("Processing in place", 0)>>
                                       \o skips
                                       \o <<Said("Successfully processed",
                                                 Len(read.processed_lines))>>
                    /\ logs_dir' = [logs_dir EXCEPT ![f] = read.processed_lines]
    /\ filepath' = f
    /\ calls' = calls + 1
    /\ UNCHANGED <<pc, df, views, final_report, output_file>>
    /\ UNCHANGED <<logs_listing, gcs_uploader, cloud, setup, workflow>>

\* main, lines 56-60: the calls for the names of the directory.
ProcessLogs == \E f \in FileNames : process_log_file_in_place(f)

(***************************************************************************)
(* The logs directory as the uploaders see it.                             *)
(***************************************************************************)
\* The directory is created.
MakeLogsDir ==
    /\ logs_listing = <<>>
    /\ logs_listing' = <<{}>>
    /\ UNCHANGED <<pipeline, normalizer, gcs_uploader, cloud, setup, workflow>>

\* A simulation leaves a log file in the directory.
SaveLog ==
    /\ logs_listing # <<>>
    /\ \E name \in UploadNames \ logs_listing[1] :
           logs_listing' = <<logs_listing[1] \cup {name}>>
    /\ UNCHANGED <<pipeline, normalizer, gcs_uploader, cloud, setup, workflow>>

(***************************************************************************)
(* upload_logs_to_gcs.py.                                                  *)
(*   A blob of the bucket is "absent", "stored" (put there before the run  *)
(*   by someone else) or "uploaded" (written by upload_logs_to_gcs).       *)
(***************************************************************************)
\* logs_path.glob("*.log.gz"): nothing when the directory is missing.
glob_log_gz(listing) ==
    IF listing = <<>> THEN {}
    ELSE listing[1] \cap {"sim1.log.gz", "sim2.log.gz"}

\* Mutant of blob_exists: the existence check always answers no.
blob_exists_never(bucket, blob_name) == FALSE

\* blob.exists()
blob_exists(bucket, blob_name) == bucket[blob_name] # "absent"

\* One turn of the loop, lines 57-75: skip an existing blob, else upload;
\* an exception (raises) is reported and the loop goes on.
upload_one(bucket, blob_name, raises) ==
    IF raises THEN "failed"
    ELSE IF blob_exists(bucket, blob_name) THEN "skipped"
    ELSE "uploaded"

\* success_count after the loop.
success_count(report) ==
    Cardinality({n \in DOMAIN report : report[n] = "uploaded"})

\* A blob is in the bucket before the script runs.
StoreBlob ==
    /\ \E n \in {"sim1.log.gz", "sim2.log.gz"} :
           /\ simulation_bucket[n] = "absent"
           /\ simulation_bucket' = [simulation_bucket EXCEPT ![n] = "stored"]
    /\ UNCHANGED <<upload_report, upload_result>>
    /\ UNCHANGED <<pipeline, normalizer, logs_listing, cloud, setup, workflow>>

\* upload_logs_to_gcs(), lines 24-84.  project_id: GOOGLE_CLOUD_PROJECT is
\* set; connects: storage.Client did not raise; raising: the files whose
\* turn of the loop raises.
upload_logs_to_gcs ==
    /\ \E project_id \in BOOLEAN, connects \in BOOLEAN,
          raising \in SUBSET glob_log_gz(logs_listing) :
           LET log_files == glob_log_gz(logs_listing)
               report == [n \in log_files |->
                             upload_one(simulation_bucket, n, n \in raising)]
           IN  IF ~project_id \/ ~connects \/ log_files = {}
               THEN /\ upload_result' = "False"
                    /\ upload_report' = NoReport
                    /\ UNCHANGED simulation_bucket
               ELSE /\ upload_report' = report
                    /\ simulation_bucket' =
                           [n \in UploadNames |->
                               IF n \in log_files /\ report[n] = "uploaded"
                               THEN "uploaded" ELSE simulation_bucket[n]]
                    /\ upload_result' =
                           IF success_count(report) = Cardinality(log_files)
                           THEN "True" ELSE "False"
    /\ UNCHANGED <<pipeline, normalizer, logs_listing, cloud, setup, workflow>>

NextGcsUpload == MakeLogsDir \/ SaveLog \/ StoreBlob \/ upload_logs_to_gcs

SpecGcsUpload == Init /\ [][NextGcsUpload]_vars

(***************************************************************************)
(* bigquery_setup.py: BigQuerySetup.run_setup, one action per step.        *)
(***************************************************************************)
\* The roles grant_iam_roles gives: project level, then bucket level.
ProjectRole == "roles/bigquery.admin"

BucketRole == "roles/storage.objectAdmin"

\* The operator logs in: gcloud auth application-default login.
Login ==
    /\ setup_pc \in {"idle", "done", "raised"}
    /\ ~authenticated
    /\ authenticated' = TRUE
    /\ UNCHANGED <<service_account, iam_roles, dataset, table, staging,
                   transfer_jobs, setup>>
    /\ UNCHANGED <<pipeline, normalizer, logs_listing, gcs_uploader, workflow>>

\* The credentials expire or are revoked.
Logout ==
    /\ setup_pc \in {"idle", "done", "raised"}
    /\ authenticated
    /\ authenticated' = FALSE
    /\ UNCHANGED <<service_account, iam_roles, dataset, table, staging,
                   transfer_jobs, setup>>
    /\ UNCHANGED <<pipeline, normalizer, logs_listing, gcs_uploader, workflow>>

\* The staging bucket is made outside the script.
MakeBucket ==
    /\ staging = "absent"
    /\ staging' = "made"
    /\ UNCHANGED <<authenticated, service_account, iam_roles, dataset, table,
                   transfer_jobs, setup>>
    /\ UNCHANGED <<pipeline, normalizer, logs_listing, gcs_uploader, workflow>>

\* The staging bucket is deleted outside the script.
RemoveBucket ==
    /\ staging # "absent"
    /\ staging_blobs = {}
    /\ staging' = "absent"
    /\ UNCHANGED <<authenticated, service_account, iam_roles, dataset, table,
                   transfer_jobs, setup>>
    /\ UNCHANGED <<pipeline, normalizer, logs_listing, gcs_uploader, workflow>>

\* run_setup is called.
RunSetup ==
    /\ setup_pc \in {"idle", "done", "raised"}
    /\ transfer_jobs < MaxJobs
    /\ setup_pc' = "setup_authentication"
    /\ setup_result' = "None"
    /\ UNCHANGED cloud
    /\ UNCHANGED <<pipeline, normalizer, logs_listing, gcs_uploader, workflow>>

\* Step 1, lines 390-392: setup_authentication lists the datasets.
SetupAuthentication ==
    /\ setup_pc = "setup_authentication"
    /\ IF authenticated
       THEN setup_pc' = "create_or_get_service_account" /\ UNCHANGED setup_result
       ELSE setup_pc' = "done" /\ setup_result' = "False"
    /\ UNCHANGED cloud
    /\ UNCHANGED <<pipeline, normalizer, logs_listing, gcs_uploader, workflow>>

\* Step 1a, lines 395-398: the account is found or created, or the call
\* fails and returns None.
CreateOrGetServiceAccount ==
    /\ setup_pc = "create_or_get_service_account"
    /\ \E fails \in BOOLEAN :
           IF fails
           THEN /\ setup_pc' = "done" /\ setup_result' = "False"
                /\ UNCHANGED service_account
           ELSE /\ setup_pc' = "grant_iam_roles" /\ UNCHANGED setup_result
                /\ service_account' = TRUE
    /\ UNCHANGED <<authenticated, iam_roles, dataset, table, staging, transfer_jobs>>
    /\ UNCHANGED <<pipeline, normalizer, logs_listing, gcs_uploader, workflow>>

\* grant_iam_roles, lines 82-154: the project-level policy, then the
\* policy of the bucket, which get_bucket must find.
GrantIamRoles ==
    /\ setup_pc = "grant_iam_roles"
    /\ \E project_fails \in BOOLEAN, bucket_fails \in BOOLEAN :
           IF project_fails
           THEN /\ setup_pc' = "done" /\ setup_result' = "False"
                /\ UNCHANGED iam_roles
           ELSE IF bucket_fails \/ staging = "absent"
           THEN /\ setup_pc' = "done" /\ setup_result' = "False"
                /\ iam_roles' = iam_roles \cup {ProjectRole}
           ELSE /\ setup_pc' = "create_dataset" /\ UNCHANGED setup_result
                /\ iam_roles' = iam_roles \cup {ProjectRole, BucketRole}
    /\ UNCHANGED <<authenticated, service_account, dataset, table, staging,
                   transfer_jobs>>
    /\ UNCHANGED <<pipeline, normalizer, logs_listing, gcs_uploader, workflow>>

\* Step 2, create_dataset: get_dataset, and create_dataset on NotFound; an
\* error other than Conflict leaves run_setup.
CreateDataset ==
    /\ setup_pc = "create_dataset"
    /\ \E raises \in BOOLEAN :
           IF raises
           THEN setup_pc' = "raised" /\ UNCHANGED dataset
           ELSE setup_pc' = "create_table" /\ dataset' = TRUE
    /\ UNCHANGED <<authenticated, service_account, iam_roles, table, staging,
                   transfer_jobs, setup_result>>
    /\ UNCHANGED <<pipeline, normalizer, logs_listing, gcs_uploader, workflow>>

\* Step 3, create_table: get_table, and create_table on NotFound.
CreateTable ==
    /\ setup_pc = "create_table"
    /\ \E raises \in BOOLEAN :
           IF raises \/ ~dataset
           THEN setup_pc' = "raised" /\ UNCHANGED table
           ELSE setup_pc' = "create_gcs_bucket" /\ table' = TRUE
    /\ UNCHANGED <<authenticated, service_account, iam_roles, dataset, staging,
                   transfer_jobs, setup_result>>
    /\ UNCHANGED <<pipeline, normalizer, logs_listing, gcs_uploader, workflow>>

\* Step 4, create_gcs_bucket: get_bucket, and create_bucket on NotFound; a
\* failure is reported and run_setup goes on.
CreateGcsBucket ==
    /\ setup_pc = "create_gcs_bucket"
    /\ \E fails \in BOOLEAN :
           staging' = IF staging = "absent" /\ ~fails THEN "created" ELSE staging
    /\ setup_pc' = "create_transfer_job"
    /\ UNCHANGED <<authenticated, service_account, iam_roles, dataset, table,
                   transfer_jobs, setup_result>>
    /\ UNCHANGED <<pipeline, normalizer, logs_listing, gcs_uploader, workflow>>

\* transfer_client.create_transfer_config: the service adds a config under
\* a name it chooses; nothing is looked up first.
create_transfer_config(jobs) == jobs + 1

\* Step 5, create_transfer_job, lines 283-338: the config is created, or
\* the call fails, is reported and run_setup goes on.
CreateTransferJob ==
    /\ setup_pc = "create_transfer_job"
    /\ \E fails \in BOOLEAN :
           transfer_jobs' = IF fails THEN transfer_jobs
                            ELSE create_transfer_config(transfer_jobs)
    /\ setup_pc' = "verify_setup"
    /\ UNCHANGED <<authenticated, service_account, iam_roles, dataset, table,
                   staging, setup_result>>
    /\ UNCHANGED <<pipeline, normalizer, logs_listing, gcs_uploader, workflow>>

\* Step 6, verify_setup: True when the dataset and the table are found.
VerifySetup ==
    /\ setup_pc = "verify_setup"
    /\ \E raises \in BOOLEAN :
           setup_result' = IF dataset /\ table /\ ~raises THEN "True" ELSE "False"
    /\ setup_pc' = "done"
    /\ UNCHANGED cloud
    /\ UNCHANGED <<pipeline, normalizer, logs_listing, gcs_uploader, workflow>>

\* The steps of run_setup after its entry.
setup_steps ==
    \/ SetupAuthentication
    \/ CreateOrGetServiceAccount
    \/ GrantIamRoles
    \/ CreateDataset
    \/ CreateTable
    \/ CreateGcsBucket
    \/ CreateTransferJob
    \/ VerifySetup

run_setup == RunSetup \/ setup_steps

NextSetup == Login \/ Logout \/ MakeBucket \/ RemoveBucket \/ run_setup

SpecSetup == Init /\ [][NextSetup]_vars

(***************************************************************************)
(* bigquery_main.py: main, with BigQueryUploader.run_upload,               *)
(* run_upload_and_transfer and trigger_bigquery_transfer                   *)
(* (bigquery_upload.py), one action per step.                              *)
(***************************************************************************)
Commands == {"setup", "upload", "analyse", "full", "help"}

\* sorted(...) of the names of logs/.
UploadOrder == <<"sim1.log.gz", "sim2.log.gz", "sim3.log">>

\* upload_logs_to_gcs of BigQueryUploader, lines 33-45: the .log.gz files
\* when there are some, else the .log files, else nothing.
file_list(listing) ==
    LET compressed_files == listing \cap {"sim1.log.gz", "sim2.log.gz"}
        uncompressed_files == listing \cap {"sim3.log"}
    IN  IF compressed_files # {} THEN SortedSeq(compressed_files, UploadOrder)
        ELSE SortedSeq(uncompressed_files, UploadOrder)

\* Mutant of upload_succeeded: run_upload returns True with nothing uploaded.
upload_succeeded_always(files) == TRUE

\* run_upload, lines 132-144: `if not gcs_files: return False`.
upload_succeeded(files) == files # <<>>

\* main, lines 18-33 and the dispatch on the command.
MainCommand ==
    /\ main_pc \in {"idle", "exit"}
    /\ \E c \in Commands :
           /\ command' = c
           /\ IF c = "setup"
              THEN /\ setup_pc \in {"idle", "done", "raised"}
                   /\ transfer_jobs < MaxJobs
                   /\ main_pc' = "run_setup"
                   /\ main_result' = "None"
                   /\ setup_pc' = "setup_authentication"
                   /\ setup_result' = "None"
              ELSE /\ main_pc' = CASE c \in {"upload", "full"} -> "run_upload"
                                  [] c = "analyse" -> "run_analysis"
                                  [] OTHER -> "exit"
                   /\ main_result' = IF c = "help" THEN "False" ELSE "None"
                   /\ UNCHANGED setup
    /\ gcs_files' = {}
    /\ transfer_started' = FALSE
    /\ analysis_started' = FALSE
    /\ UNCHANGED <<staging_blobs, cloud>>
    /\ UNCHANGED <<pipeline, normalizer, logs_listing, gcs_uploader>>

\* main, lines 38-43: run_setup has returned, or has raised into main's
\* except.
SetupReturns ==
    /\ main_pc = "run_setup"
    /\ setup_pc \in {"done", "raised"}
    /\ main_result' = IF setup_pc = "done" THEN setup_result ELSE "False"
    /\ main_pc' = "exit"
    /\ UNCHANGED <<command, staging_blobs, gcs_files, transfer_started,
                   analysis_started, cloud, setup>>
    /\ UNCHANGED <<pipeline, normalizer, logs_listing, gcs_uploader>>

\* run_upload, lines 118-144, with _upload_files_directly: the files are
\* uploaded in order, overwriting; an upload that raises (it does when the
\* bucket is absent) leaves through main's except after `sent` files.
RunUpload ==
    /\ main_pc = "run_upload"
    /\ IF logs_listing = <<>>
       THEN /\ main_result' = "False" /\ main_pc' = "exit"
            /\ UNCHANGED <<staging_blobs, gcs_files>>
       ELSE LET files == file_list(logs_listing[1])
            IN  \E sent \in 0..Len(files) :
                    /\ staging = "absent" => sent = 0
                    /\ staging_blobs' =
                           staging_blobs \cup {files[i] : i \in 1..sent}
                    /\ IF sent < Len(files)
                       THEN /\ main_result' = "False" /\ main_pc' = "exit"
                            /\ UNCHANGED gcs_files
                       ELSE IF ~upload_succeeded(files)
                       THEN /\ main_result' = "False" /\ main_pc' = "exit"
                            /\ UNCHANGED gcs_files
                       ELSE /\ gcs_files' = {files[i] : i \in 1..Len(files)}
                            /\ main_pc' = IF command = "upload"
                                          THEN "trigger_bigquery_transfer"
                                          ELSE "run_analysis"
                            /\ UNCHANGED main_result
    /\ UNCHANGED <<command, transfer_started, analysis_started, cloud, setup>>
    /\ UNCHANGED <<pipeline, normalizer, logs_listing, gcs_uploader>>

\* trigger_bigquery_transfer, lines 71-116: no Tractor config, a started
\* run, an empty answer or an exception.
TriggerBigqueryTransfer ==
    /\ main_pc = "trigger_bigquery_transfer"
    /\ \E answer \in {"runs", "no runs", "raised"} :
           IF transfer_jobs > 0 /\ answer = "runs"
           THEN transfer_started' = TRUE /\ main_result' = "True"
           ELSE UNCHANGED transfer_started /\ main_result' = "False"
    /\ main_pc' = "exit"
    /\ UNCHANGED <<command, staging_blobs, gcs_files, analysis_started, cloud,
                   setup>>
    /\ UNCHANGED <<pipeline, normalizer, logs_listing, gcs_uploader>>

\* main, lines 58-60 and 74-77: BigQueryAnalyser.run_analysis, which
\* returns or raises into main's except.
RunAnalysis ==
    /\ main_pc = "run_analysis"
    /\ analysis_started' = TRUE
    /\ \E raises \in BOOLEAN :
           main_result' = IF raises THEN "False" ELSE "True"
    /\ main_pc' = "exit"
    /\ UNCHANGED <<command, staging_blobs, gcs_files, transfer_started, cloud,
                   setup>>
    /\ UNCHANGED <<pipeline, normalizer, logs_listing, gcs_uploader>>

bigquery_main ==
    \/ MainCommand
    \/ SetupReturns
    \/ RunUpload
    \/ TriggerBigqueryTransfer
    \/ RunAnalysis

NextWorkflow ==
    \/ MakeLogsDir
    \/ SaveLog
    \/ Login
    \/ MakeBucket
    \/ setup_steps
    \/ bigquery_main

SpecWorkflow == Init /\ [][NextWorkflow]_vars

(***************************************************************************)
(* Log lines.                                                              *)
(***************************************************************************)
\* A line holding a complete event object.
Event(kind, version, game, data) ==
    [json |-> [timestamp |-> "t", event |-> kind, appVersion |-> version,
               gameId |-> game, data |-> data]]

\* Reader inputs: malformed lines, complete events, and objects that decode
\* but lack `timestamp` or `event`.
ReaderLines ==
    << [bad |-> "blank"],
       [bad |-> "truncated"],
       Event("game_over", "v1", "g1", [winner |-> "A"]),
       [json |-> [event |-> "game_over", appVersion |-> "v2", gameId |-> "g2",
                  data |-> [winner |-> "B"]]],
       [json |-> [timestamp |-> "t", appVersion |-> "v1", gameId |-> "g3",
                  data |-> [winner |-> "A"]]],
       Event("kitty_pickup", "v1", "g1", [kittyPoints |-> 10]),
       Event("debug_note", "v1", "g1", [text |-> "x"]) >>

NextReader == WriteLine(ReaderLines, {"game1.log", "notes.txt"}) \/ GenerateFinalReport

SpecReader == Init /\ [][NextReader]_vars

\* Trick inputs: regular tricks, a winner who played no card of the trick, a
\* winner who played twice, missing winningPlayer / playerId / trickPoints,
\* an empty and an absent play list, and one game_over event.
Play(p) == [playerId |-> p]

TrickLines ==
    << Event("trick_completed", "v1", "g1",
             [winningPlayer |-> "p1", trickPoints |-> 10,
              allPlays |-> <<Play("p1"), Play("p2")>>]),
       Event("trick_completed", "v1", "g1",
             [winningPlayer |-> "p2", trickPoints |-> 5,
              allPlays |-> <<Play("p1"), Play("p2")>>]),
       Event("trick_completed", "v1", "g1",
             [winningPlayer |-> "p3", trickPoints |-> 5,
              allPlays |-> <<Play("p1"), Play("p2")>>]),
       Event("trick_completed", "v2", "g2",
             [winningPlayer |-> "p1", trickPoints |-> 5,
              allPlays |-> <<Play("p1"), Play("p1"), Play("p2")>>]),
       Event("trick_completed", "v1", "g1",
             [trickPoints |-> 5,
              allPlays |-> <<[card |-> "x"], Play("p1")>>]),
       Event("trick_completed", "v2", "g2",
             [winningPlayer |-> "p1", trickPoints |-> 5, allPlays |-> <<>>]),
       Event("trick_completed", "v2", "g2", [winningPlayer |-> "p1"]),
       Event("game_over", "v1", "g1", [winner |-> "A"]) >>

NextTricks == WriteLine(TrickLines, {"game1.log"}) \/ GenerateFinalReport

SpecTricks == Init /\ [][NextTricks]_vars

\* Mixed inputs: every routed event kind, two versions with completed games,
\* one gameId shared by two versions, and a version (v3) that only ever
\* appears in a secondary view.
MixedLines ==
    << Event("game_initialized", "v1", "g1",
             [attackingTeam |-> "A", defendingTeam |-> "B"]),
       Event("game_over", "v1", "g1", [winner |-> "A"]),
       Event("game_over", "v2", "g1", [winner |-> "B"]),
       Event("game_over", "v1", "g2", [winner |-> "B"]),
       Event("attacking_team_victory", "v1", "g1", [finalPoints |-> 95]),
       Event("defending_team_victory", "v2", "g2", [attackingTeamPoints |-> 40]),
       Event("trick_completed", "v3", "g3",
             [winningPlayer |-> "p1", trickPoints |-> 10,
              allPlays |-> <<Play("p1"), Play("p2")>>]),
       Event("trick_completed", "v1", "g1",
             [winningPlayer |-> "p2", trickPoints |-> 5,
              allPlays |-> <<Play("p1"), Play("p2"), Play("p1")>>]),
       Event("kitty_pickup", "v1", "g1", [kittyPoints |-> 8]),
       Event("ai_leading_decision", "v2", "g1",
             [player |-> "p1", score |-> 3, reasoning |-> <<"r">>,
              context |-> [isAttackingTeam |-> TRUE, trickPosition |-> "first"]]),
       Event("ai_following_decision", "v3", "g3", [player |-> "p2", score |-> 0]) >>

\* Inputs spread over two log files: a completed game with its roles, two
\* kitty pickups with different points, a trick, and an event of a kind no
\* view selects, from a version of its own.
FileLines ==
    << Event("game_over", "v1", "g1", [winner |-> "A"]),
       Event("game_initialized", "v1", "g1",
             [attackingTeam |-> "A", defendingTeam |-> "B"]),
       Event("kitty_pickup", "v1", "g1", [kittyPoints |-> 8]),
       Event("kitty_pickup", "v1", "g1", [kittyPoints |-> 3]),
       Event("trick_completed", "v1", "g1",
             [winningPlayer |-> "p2", trickPoints |-> 5,
              allPlays |-> <<Play("p1"), Play("p2")>>]),
       Event("debug_note", "v2", "g9", [text |-> "x"]) >>

NextFiles == WriteLine(FileLines, {"game1.log", "game2.log"}) \/ GenerateFinalReport

SpecFiles == Init /\ [][NextFiles]_vars

\* Position inputs: four-play tricks of one version won by the second and by
\* the third player, a two-play trick of another version, and a game_over.
PositionLines ==
    << Event("trick_completed", "v1", "g1",
             [winningPlayer |-> "p2", trickPoints |-> 10,
              allPlays |-> <<Play("p1"), Play("p2"), Play("p3"), Play("p4")>>]),
       Event("trick_completed", "v1", "g1",
             [winningPlayer |-> "p3", trickPoints |-> 5,
              allPlays |-> <<Play("p1"), Play("p2"), Play("p3"), Play("p4")>>]),
       Event("trick_completed", "v2", "g2",
             [winningPlayer |-> "p1", trickPoints |-> 5,
              allPlays |-> <<Play("p1"), Play("p2")>>]),
       Event("game_over", "v1", "g1", [winner |-> "A"]) >>

NextPositions == WriteLine(PositionLines, {"game1.log"}) \/ GenerateFinalReport

SpecPositions == Init /\ [][NextPositions]_vars

\* Round inputs: attacking and defending victories of one version, a round
\* of another version, rounds carrying both point fields, and a game_over.
RoundLines ==
    << Event("attacking_team_victory", "v1", "g1", [finalPoints |-> 95]),
       Event("defending_team_victory", "v1", "g1", [attackingTeamPoints |-> 40]),
       Event("attacking_team_victory", "v1", "g2",
             [finalPoints |-> 80, attackingTeamPoints |-> 10]),
       Event("defending_team_victory", "v2", "g3",
             [finalPoints |-> 120, attackingTeamPoints |-> 30]),
       Event("game_over", "v1", "g1", [winner |-> "A"]) >>

NextRounds == WriteLine(RoundLines, {"game1.log"}) \/ GenerateFinalReport

SpecRounds == Init /\ [][NextRounds]_vars

\* Sparse inputs: events that carry `event` and `timestamp` but lack an
\* optional field (gameId, the payload, or a payload sub-field), next to
\* complete events of the same kinds, and one malformed line.
Sparse(kind, version, fields) ==
    [json |-> [c \in {"timestamp", "event", "appVersion"} \cup DOMAIN fields |->
                  IF c = "timestamp" THEN "t"
                  ELSE IF c = "event" THEN kind
                  ELSE IF c = "appVersion" THEN version
                  ELSE fields[c]]]

SparseLines ==
    << [bad |-> "truncated"],
       Event("game_over", "v1", "g1", [winner |-> "A"]),
       Sparse("game_over", "v1", [data |-> [winner |-> "A"]]),
       Sparse("game_over", "v1", [gameId |-> "g2"]),
       Event("attacking_team_victory", "v1", "g1", [finalPoints |-> 95]),
       Event("attacking_team_victory", "v1", "g1", [roundNumber |-> 1]),
       Event("kitty_pickup", "v1", "g1", [kittyPoints |-> 8]),
       Event("kitty_pickup", "v1", "g1", [player |-> "p1"]),
       Event("ai_leading_decision", "v1", "g1", [player |-> "p1", score |-> 4]),
       Event("ai_leading_decision", "v1", "g1", [player |-> "p1"]) >>

NextSparse == WriteLine(SparseLines, {"game1.log"}) \/ GenerateFinalReport

SpecSparse == Init /\ [][NextSparse]_vars

\* Normalizer inputs: an event object, a truncated line, a blank line, a
\* line holding a JSON number, and a line copied from a processed file,
\* which carries that file's sequenceNumber.
NormalizerLines ==
    << Event("game_over", "v1", "g1", [winner |-> "A"]),
       [bad |-> "truncated"],
       [bad |-> "blank"],
       [scalar |-> 7],
       [json |-> [timestamp |-> "t", event |-> "game_over", sequenceNumber |-> 9],
        dumped |-> TRUE] >>

NextNormalizer ==
    WriteLine(NormalizerLines, {"game1.log", "game2.log"}) \/ ProcessLogs

SpecNormalizer == Init /\ [][NextNormalizer]_vars

Next == WriteLine(MixedLines, {"game1.log"}) \/ GenerateFinalReport

Spec == Init /\ [][Next]_vars

(***************************************************************************)
(* Properties.                                                             *)
(***************************************************************************)
\* The run has loaded the logs (load_logs returned).
Loaded == pc # "idle"

\* The run went through every step and returned the merged report.
Completed == pc = "returned" /\ stdout[Len(stdout)].msg = "Analysis complete!"

\* The lines load_logs reads: those of the .log files.
LogFileLines(name) == IF EndsWithLog(name) THEN logs_dir[name] ELSE <<>>

\* M: the number of lines of the .log files that are valid JSON.
ValidLineCount ==
    SumSeq([f \in 1..3 |->
        Cardinality({i \in 1..Len(LogFileLines(LogFileOrder[f])) :
                        "json" \in DOMAIN LogFileLines(LogFileOrder[f])[i]})])

\* N: the number of malformed lines of the .log files.
MalformedLineCount ==
    SumSeq([f \in 1..3 |->
        Cardinality({i \in 1..Len(LogFileLines(LogFileOrder[f])) :
                        "bad" \in DOMAIN LogFileLines(LogFileOrder[f])[i]})])

C2_RecordsHaveEventAndTimestamp ==
    Loaded => \A r \in 1..Len(df) : {"event", "timestamp"} \subseteq DOMAIN df[r]

(***************************************************************************)
(* The trick flattener, stated from the trick_completed rows of df.        *)
(***************************************************************************)
Tricks == OfKinds(df, {"trick_completed"})

\* The play list of a trick: empty when allPlays is absent.
PlaysOf(trick) ==
    IF "allPlays" \in DOMAIN trick.data THEN trick.data.allPlays ELSE <<>>

PlayerOf(play) == IF "playerId" \in DOMAIN play THEN play.playerId ELSE None

WinnerOf(trick) ==
    IF "winningPlayer" \in DOMAIN trick.data THEN trick.data.winningPlayer
    ELSE None

\* The number of observations emitted before those of the t-th trick.
RECURSIVE Offset(_)
Offset(t) == IF t <= 1 THEN 0 ELSE Offset(t - 1) + Len(PlaysOf(Tricks[t - 1]))

\* The flattener has run (and did not raise).
Flattened ==
    \/ pc \in {"position_stats", "player_performance", "round_efficiency",
               "ai_strategic", "efficiency_stats", "merge_team_roles",
               "merge_round_efficiency", "merge_position_stats",
               "merge_efficiency_stats", "merge_ai_strategic"}
    \/ Completed

\* The observations of the t-th trick: a slice of trick_positions.
ObservationsOf(t) ==
    SubSeq(trick_positions, Offset(t) + 1, Offset(t) + Len(PlaysOf(Tricks[t])))

\* How many plays of the trick were made by its winningPlayer.
WinnerMatches(trick) ==
    Cardinality({k \in 1..Len(PlaysOf(trick)) :
                    PlayerOf(PlaysOf(trick)[k]) = WinnerOf(trick)})

\* C3: the flattener emits sum(len(plays)) observations; the k-th play
\* (0-based) of a trick becomes the observation with seat position k + 1, in
\* list order; an empty or absent play list emits nothing; wonTrick is true
\* exactly when the play's playerId equals the trick's winningPlayer.
C3_FlattenerEmitsOnePerPlay ==
    Flattened =>
        /\ Len(trick_positions) = Offset(Len(Tricks) + 1)
        /\ \A t \in 1..Len(Tricks) :
               \A k \in 0..(Len(PlaysOf(Tricks[t])) - 1) :
                   LET o == trick_positions[Offset(t) + k + 1]
                       play == PlaysOf(Tricks[t])[k + 1]
                   IN  /\ o.trickPosition = k + 1
                       /\ o.playerId = PlayerOf(play)
                       /\ o.appVersion = Col(Tricks[t], "appVersion")
                       /\ o.wonTrick = (PlayerOf(play) = WinnerOf(Tricks[t]))

\* C3 witness: a flattened input holding a trick with several plays, a trick
\* with an empty play list and a trick without a play list.
C3_Witness ==
    /\ Flattened
    /\ \E a, b, c \in 1..Len(Tricks) :
           /\ Len(PlaysOf(Tricks[a])) >= 2
           /\ "allPlays" \in DOMAIN Tricks[b].data /\ PlaysOf(Tricks[b]) = <<>>
           /\ "allPlays" \notin DOMAIN Tricks[c].data
    /\ Len(trick_positions) >= 2

\* C4 (as claimed): every trick that emits observations has exactly one
\* observation with wonTrick = true.
C4_ExactlyOneWinnerPerTrick ==
    Flattened =>
        \A t \in 1..Len(Tricks) :
            PlaysOf(Tricks[t]) # <<>> =>
                Cardinality({k \in 1..Len(ObservationsOf(t)) :
                                ObservationsOf(t)[k].wonTrick}) = 1

\* C4 (amended): the observations of a trick with wonTrick = true are those
\* of the plays made by its winningPlayer (a missing playerId equals a
\* missing winningPlayer), so there is exactly one when winningPlayer matches
\* exactly one play, none when it matches none, several when it matches several.
C4_WinnersAreTheMatchingPlays ==
    Flattened =>
        \A t \in 1..Len(Tricks) :
            LET won == {k \in 1..Len(ObservationsOf(t)) :
                           ObservationsOf(t)[k].wonTrick}
            IN  /\ won = {k \in 1..Len(PlaysOf(Tricks[t])) :
                             PlayerOf(PlaysOf(Tricks[t])[k]) = WinnerOf(Tricks[t])}
                /\ (WinnerMatches(Tricks[t]) = 1 <=> Cardinality(won) = 1)

\* C4 witness: flattened tricks with exactly one, with no and with two
\* winning observations, and one whose winner and first player are missing.
C4_Witness ==
    /\ Flattened
    /\ \E t \in 1..Len(Tricks) : WinnerMatches(Tricks[t]) = 1
    /\ \E t \in 1..Len(Tricks) :
           PlaysOf(Tricks[t]) # <<>> /\ WinnerMatches(Tricks[t]) = 0
    /\ \E t \in 1..Len(Tricks) :
           \/ WinnerMatches(Tricks[t]) = 2
           \/ "winningPlayer" \notin DOMAIN Tricks[t].data

\* The messages generate_final_report prints: progress messages only.
ProgressMessages ==
    {"Loading log files...", "Loaded entries", "No log data found!",
     "Analyzing game statistics...", "Analyzing team performance...",
     "Analyzing trick performance...", "Analyzing position statistics...",
     "Analyzing player performance...", "Analyzing round efficiency...",
     "Analyzing AI decisions...", "Analyzing efficiency metrics...",
     "Analysis complete!", "No data to analyze", "Analysis results saved"}

\* What the run reported besides its progress messages.
Warnings == {i \in 1..Len(stdout) : stdout[i].msg \notin ProgressMessages}

\* C5 (as claimed): a completed run over a trick whose winningPlayer matches
\* zero or several plays has reported a data-quality warning.
C5_WinnerViolationIsReported ==
    (Completed /\ \E t \in 1..Len(Tricks) :
                      PlaysOf(Tricks[t]) # <<>> /\ WinnerMatches(Tricks[t]) # 1)
        => Warnings # {}

(***************************************************************************)
(* Aggregates, stated from the rows of df.                                 *)
(***************************************************************************)
PositionStatsDone ==
    \/ pc \in {"player_performance", "round_efficiency", "ai_strategic",
               "efficiency_stats", "merge_team_roles", "merge_round_efficiency",
               "merge_position_stats", "merge_efficiency_stats",
               "merge_ai_strategic"}
    \/ Completed

RoundEfficiencyDone ==
    \/ pc \in {"ai_strategic", "efficiency_stats", "merge_team_roles",
               "merge_round_efficiency", "merge_position_stats",
               "merge_efficiency_stats", "merge_ai_strategic"}
    \/ Completed

GameStatsDone == pc \notin {"idle", "game_stats", "raised"} /\ Len(stdout) >= 3

\* The rows of df of the given kinds and build version.
EventsOf(kinds, v) ==
    {i \in 1..Len(df) : Col(df[i], "event") \in kinds /\ Col(df[i], "appVersion") = v}

\* C6 (as claimed): a ratio whose denominator is zero is null, never 0:
\* avg_points_when_winning of a (version, position) with no trick won, and
\* avg_attacking_win_points / avg_defending_win_points of a version without
\* attacking-won / defending-won rounds.
C6_ZeroDenominatorIsNull ==
    /\ PositionStatsDone =>
           \A i \in 1..Len(position_stats) :
               Val(position_stats[i].tricks_won_at_position) = 0
                   => IsNull(position_stats[i].avg_points_when_winning)
    /\ RoundEfficiencyDone =>
           \A i \in 1..Len(round_efficiency) :
               LET r == round_efficiency[i]
               IN  /\ EventsOf({"attacking_team_victory"}, r.appVersion) = {}
                          => IsNull(r.avg_attacking_win_points)
                   /\ EventsOf({"defending_team_victory"}, r.appVersion) = {}
                          => IsNull(r.avg_defending_win_points)

\* The denominators of the rate metrics of version v.
TeamRoleDenominator(v) ==
    Cardinality({p \in EventsOf({"game_initialized"}, v) \X (1..Len(df)) :
                    /\ Col(df[p[2]], "event") = "game_over"
                    /\ Col(df[p[2]], "gameId") = Col(df[p[1]], "gameId")})

PositionDenominator(v, n) ==
    Cardinality({i \in EventsOf({"trick_completed"}, v) : Len(PlaysOf(df[i])) >= n})

PlayerDenominator(v, p) ==
    SumSeq([i \in 1..Len(df) |->
        IF i \in EventsOf({"trick_completed"}, v)
        THEN Cardinality({k \in 1..Len(PlaysOf(df[i])) :
                             PlayerOf(PlaysOf(df[i])[k]) = p})
        ELSE 0])

\* A rate cell against its denominator: null exactly when the denominator is
\* zero, otherwise within [0, 1] (kept in thousandths).
RateOk(cell, den) ==
    /\ IsNull(cell) <=> den = 0
    /\ ~IsNull(cell) => (0 <= Val(cell) /\ Val(cell) <= 1000)

\* A cell of a report row: missing when the report has no such column.
Cell(row, col) == IF col \in DOMAIN row THEN row[col] ELSE Null

Versions == {"v1", "v2", "v3"}

Players == {"p1", "p2", "p3"}

RateColumns ==
    {"attacking_team_win_rate", "defending_team_win_rate",
     "attacking_round_win_rate", "reasoning_rate", "attacking_decision_rate",
     "position_1_win_rate", "position_2_win_rate", "position_3_win_rate",
     "position_4_win_rate"}

GameOverIds(v) ==
    {Col(df[i], "gameId") : i \in EventsOf({"game_over"}, v)} \ {NaN}

\* The directory with lines i and j of file f appended once more (0: none).
WithDuplicates(f, i, j) ==
    [logs_dir EXCEPT ![f] =
        @ \o (IF i = 0 THEN <<>> ELSE <<@[i]>>) \o (IF j = 0 THEN <<>> ELSE <<@[j]>>)]

\* C8: total_games of a version is the number of distinct gameId values among
\* its game_over events (one row per version having such events), and it is
\* the same when lines of the input are duplicated.
C8_TotalGamesIsDistinctAndIdempotent ==
    GameStatsDone =>
        /\ \A v \in Versions :
               LET rows == SelectSeq(game_stats, LAMBDA r : r.appVersion = v)
               IN  IF EventsOf({"game_over"}, v) = {} THEN rows = <<>>
                   ELSE /\ Len(rows) = 1
                        /\ rows[1].total_games = Num(Cardinality(GameOverIds(v)))
        /\ \A f \in FileNames :
               \A i, j \in 0..Len(logs_dir[f]) :
                   analyze_game_stats(load_logs(WithDuplicates(f, i, j), LogFileOrder))
                       = game_stats

\* C8 witness: game statistics over an input in which one game of a version
\* has two game_over events, so that the version has more events than games.
C8_Witness ==
    /\ GameStatsDone
    /\ \E i, j \in 1..Len(df) :
           /\ i < j
           /\ df[i] = df[j]
           /\ Col(df[i], "event") = "game_over"
           /\ \E k \in 1..Len(game_stats) :
                  /\ game_stats[k].appVersion = Col(df[i], "appVersion")
                  /\ Val(game_stats[k].total_games)
                         < Cardinality(EventsOf({"game_over"}, Col(df[i], "appVersion")))

\* The directory with every line of every file appended a second time.
Doubled == [f \in FileNames |-> logs_dir[f] \o logs_dir[f]]

\* frame with the count columns cols multiplied by 2.
ScaleCounts(frame, cols) ==
    [i \in 1..Len(frame) |->
        [c \in DOMAIN frame[i] |->
            IF c \in cols THEN Num(2 * Val(frame[i][c])) ELSE frame[i][c]]]

\* C9 (as claimed): aggregating the input with every line appended a second
\* time leaves total_games and every rate and mean of every view unchanged
\* and multiplies every other raw count by exactly 2.
C9_DuplicationDoublesCounts ==
    Completed =>
        LET df2 == load_logs(Doubled, LogFileOrder)
            obs2 == analyze_trick_performance(df2)
        IN  /\ analyze_game_stats(df2) = game_stats
            /\ analyze_team_roles(df2)
                   = ScaleCounts(team_roles, {"total_games_with_roles"})
            /\ analyze_position_stats(obs2)
                   = ScaleCounts(position_stats,
                                 {"total_tricks_at_position", "tricks_won_at_position",
                                  "points_won_at_position"})
            /\ analyze_player_performance(obs2)
                   = ScaleCounts(player_performance,
                                 {"total_tricks", "tricks_won", "total_points_won"})
            /\ analyze_round_efficiency(df2)
                   = ScaleCounts(round_efficiency, {"total_rounds"})
            /\ analyze_ai_strategic_effectiveness(df2)
                   = ScaleCounts(ai_strategic, {"total_decisions"})
            /\ analyze_efficiency_stats(df2)
                   = ScaleCounts(efficiency_stats, {"kitty_events"})

\* The report is being merged, or has been returned merged.
Merging ==
    \/ pc \in {"merge_team_roles", "merge_round_efficiency", "merge_position_stats",
               "merge_efficiency_stats", "merge_ai_strategic"}
    \/ Completed

LacksVersion(view, v) ==
    view # <<>> /\ \A k \in 1..Len(view) : view[k].appVersion # v

\* Every column of cols is in the row and holds null.
AllNull(row, cols) == \A c \in cols : c \in DOMAIN row /\ IsNull(row[c])

\* C11: in the completed report, a row whose version has no entry in a
\* secondary view that has entries for other versions holds null, never
\* zero, in every column that view contributes; the same for the per-kind
\* mean of the round view when only other versions have rounds of the kind.
C11_MissingMatchIsNull ==
    /\ Completed =>
           \A i \in 1..Len(final_report) :
               LET row == final_report[i]
                   v == row.appVersion
               IN  /\ LacksVersion(team_roles, v) => AllNull(row, TeamRoleColumns)
                   /\ LacksVersion(round_efficiency, v)
                          => AllNull(row, RoundColumns \cup {"avg_rounds_per_game"})
                   /\ LacksVersion(position_stats, v)
                          => AllNull(row, pivot_columns(position_stats))
                   /\ LacksVersion(efficiency_stats, v)
                          => AllNull(row, {"avg_kitty_points"})
                   /\ LacksVersion(ai_strategic, v) => AllNull(row, AiColumns)
    /\ RoundEfficiencyDone =>
           \A i \in 1..Len(round_efficiency) :
               LET r == round_efficiency[i]
                   others(kind) ==
                       /\ OfKinds(df, {kind}) # <<>>
                       /\ EventsOf({kind}, r.appVersion) = {}
               IN  /\ others("attacking_team_victory")
                          => IsNull(r.avg_attacking_win_points)
                   /\ others("defending_team_victory")
                          => IsNull(r.avg_defending_win_points)

\* C11 witness: a completed report with a row whose version is missing from
\* the position view and from the round view, both filled by another version.
C11_Witness ==
    /\ Completed
    /\ \E i \in 1..Len(final_report) :
           /\ LacksVersion(position_stats, final_report[i].appVersion)
           /\ LacksVersion(round_efficiency, final_report[i].appVersion)
           /\ "position_1_win_rate" \in DOMAIN final_report[i]
           /\ "total_rounds" \in DOMAIN final_report[i]

\* The columns the position view can contribute.
PositionColumns ==
    {position_col_name[PositionMetrics[m]][p] : m \in 1..3, p \in 1..4}

\* No column of cols is in the row.
AllAbsent(row, cols) == \A c \in cols : c \notin DOMAIN row

\* The versions having at least one game_over event.
ReportableVersions == {v \in Versions : EventsOf({"game_over"}, v) # {}}

\* A view without matching events is empty.
EmptyViewsAreEmpty ==
    /\ TeamRoleDenominator("v1") + TeamRoleDenominator("v2")
           + TeamRoleDenominator("v3") = 0 => team_roles = <<>>
    /\ (\A t \in 1..Len(Tricks) : PlaysOf(Tricks[t]) = <<>>)
           => (position_stats = <<>> /\ player_performance = <<>>)
    /\ OfKinds(df, RoundKinds) = <<>> => round_efficiency = <<>>
    /\ OfKinds(df, AiKinds) = <<>> => ai_strategic = <<>>
    /\ OfKinds(df, {"kitty_pickup"}) = <<>> => efficiency_stats = <<>>

\* C12 (as claimed): whichever secondary views are empty, no step raises,
\* there is one row per version with a game_over event, and every metric of
\* an empty view is a column of each row, holding null.
C12_EmptyViewMetricsArePresentAndNull ==
    /\ pc # "raised"
    /\ Completed =>
           /\ EmptyViewsAreEmpty
           /\ Len(final_report) = Cardinality(ReportableVersions)
           /\ \A i \in 1..Len(final_report) :
                  LET row == final_report[i]
                  IN  /\ team_roles = <<>> => AllNull(row, TeamRoleColumns)
                      /\ round_efficiency = <<>>
                             => AllNull(row, RoundColumns \cup {"avg_rounds_per_game"})
                      /\ position_stats = <<>> => AllNull(row, PositionColumns)
                      /\ efficiency_stats = <<>> => AllNull(row, {"avg_kitty_points"})
                      /\ ai_strategic = <<>> => AllNull(row, AiColumns)

\* C12 (amended): whichever secondary views are empty, no step raises and
\* there is one row per version with a game_over event; the metrics of an
\* empty team-role, round, position or kitty view are no columns of the
\* report at all (a reader by column name finds them missing), and only the
\* three AI columns of an empty AI view are present, holding null.
C12_EmptyViewMetricsAreMissing ==
    /\ pc # "raised"
    /\ Completed =>
           /\ EmptyViewsAreEmpty
           /\ Len(final_report) = Cardinality(ReportableVersions)
           /\ \A i \in 1..Len(final_report) :
                  LET row == final_report[i]
                  IN  /\ final_report[i].appVersion \in ReportableVersions
                      /\ team_roles = <<>> => AllAbsent(row, TeamRoleColumns)
                      /\ round_efficiency = <<>>
                             => AllAbsent(row, RoundColumns \cup {"avg_rounds_per_game"})
                      /\ position_stats = <<>> => AllAbsent(row, PositionColumns)
                      /\ efficiency_stats = <<>> => AllAbsent(row, {"avg_kitty_points"})
                      /\ ai_strategic = <<>> => AllNull(row, AiColumns)

\* C12 witness: a completed report with rows, made while the kitty view and
\* the AI view were empty and the round view was not.
C12_Witness ==
    /\ Completed
    /\ final_report # <<>>
    /\ efficiency_stats = <<>>
    /\ ai_strategic = <<>>
    /\ round_efficiency # <<>>
    /\ "avg_kitty_points" \notin DOMAIN final_report[1]

\* The metric columns of a view: its columns other than its group keys.
MetricsOf(view) ==
    IF view = <<>> THEN {}
    ELSE DOMAIN view[1] \ {"appVersion", "trickPosition", "playerId"}

\* The seat positions 1..4 that some observation holds.
SeatsObserved ==
    {p \in 1..4 : \E i \in 1..Len(trick_positions) :
                      trick_positions[i].trickPosition = p}

\* C13 (as claimed): the columns of every row of the completed report
\* include every metric of every view: the team-role, round, kitty and AI
\* views' columns and the player view's metrics.
C13_ColumnsAreUnionOfViewMetrics ==
    Completed =>
        \A i \in 1..Len(final_report) :
            /\ MetricsOf(team_roles) \subseteq DOMAIN final_report[i]
            /\ MetricsOf(round_efficiency) \subseteq DOMAIN final_report[i]
            /\ MetricsOf(player_performance) \subseteq DOMAIN final_report[i]
            /\ MetricsOf(efficiency_stats) \subseteq DOMAIN final_report[i]
            /\ MetricsOf(ai_strategic) \subseteq DOMAIN final_report[i]

\* C13 (amended): the columns of every row of the completed report are
\* appVersion, total_games, the two team win rates when the team view is
\* non-empty, the five round metrics and avg_rounds_per_game when the round
\* view is non-empty, the three pivoted position metrics of each seat 1..4
\* that was observed, avg_kitty_points when the kitty view is non-empty, and
\* avg_decision_score, reasoning_rate, attacking_decision_rate; no other
\* metric of a view is a column.
C13_ColumnsAreTheSelectedMetrics ==
    Completed =>
        \A i \in 1..Len(final_report) :
            DOMAIN final_report[i] =
                {"appVersion", "total_games"}
                \cup (IF team_roles = <<>> THEN {} ELSE TeamRoleColumns)
                \cup (IF round_efficiency = <<>> THEN {}
                      ELSE RoundColumns \cup {"avg_rounds_per_game"})
                \cup {position_col_name[PositionMetrics[m]][p] :
                          m \in 1..3, p \in SeatsObserved}
                \cup (IF efficiency_stats = <<>> THEN {} ELSE {"avg_kitty_points"})
                \cup AiColumns

\* C13 witness: a completed report with rows, made from a non-empty player
\* view and a non-empty kitty view, whose rows hold neither player_win_rate
\* nor kitty_events.
C13_Witness ==
    /\ Completed
    /\ final_report # <<>>
    /\ player_performance # <<>>
    /\ efficiency_stats # <<>>
    /\ "avg_kitty_points" \in DOMAIN final_report[1]
    /\ "kitty_events" \notin DOMAIN final_report[1]
    /\ "player_win_rate" \notin DOMAIN final_report[1]

(***************************************************************************)
(* Derived column, missing fields, the top-level outcome.                  *)
(***************************************************************************)
\* r is num / den rounded to the nearest multiple of 1 / scale.
Nearest(r, num, den, scale) ==
    LET d == num * scale - r * den
    IN  2 * d <= den /\ -2 * d <= den

\* The round merge has been made.
RoundsMerged ==
    \/ pc \in {"merge_position_stats", "merge_efficiency_stats", "merge_ai_strategic"}
    \/ Completed

\* C14 (as claimed): in every row of the report total_games is at least 1;
\* avg_rounds_per_game is total_rounds / total_games rounded to 1 decimal
\* when the row has total_rounds, and null when it has not.
C14_AvgRoundsPerGame ==
    RoundsMerged =>
        \A i \in 1..Len(final_report) :
            LET row == final_report[i]
            IN  /\ Val(row.total_games) >= 1
                /\ IF IsNull(Cell(row, "total_rounds"))
                   THEN IsNull(Cell(row, "avg_rounds_per_game"))
                   ELSE /\ Len(row.avg_rounds_per_game) = 1
                        /\ Nearest(Val(row.avg_rounds_per_game),
                                   Val(row.total_rounds), Val(row.total_games), 10)

\* The payload sub-field a view averages for an event of the given kind.
FieldOf(kind) ==
    CASE kind = "attacking_team_victory" -> "finalPoints"
      [] kind = "defending_team_victory" -> "attackingTeamPoints"
      [] kind = "kitty_pickup" -> "kittyPoints"
      [] OTHER -> "score"

\* The event carries the sub-field its view averages.
HasField(row) ==
    /\ "data" \in DOMAIN row
    /\ FieldOf(Col(row, "event")) \in DOMAIN row.data

\* The mean, rounded to 1 / scale, of the sub-field over the events of the
\* given kinds and version that carry it; null when none carries it.
MeanOfPresent(kinds, v, scale) ==
    LET rows == SelectSeq(df, LAMBDA r : /\ Col(r, "event") \in kinds
                                         /\ Col(r, "appVersion") = v
                                         /\ HasField(r))
    IN  IF rows = <<>> THEN Null
        ELSE Num(Round(SumSeq([i \in 1..Len(rows) |->
                                  rows[i].data[FieldOf(rows[i].event)]]),
                       Len(rows), scale))

\* C15 (as claimed): an event lacking the payload or an expected sub-field
\* never aborts the run; it is counted in its view's count and contributes
\* null, not a substituted value, to the view's mean: the mean is taken over
\* the events that carry the field and is null when none does.
C15_MissingFieldContributesNull ==
    /\ pc # "raised"
    /\ Completed =>
           /\ \A k \in 1..Len(round_efficiency) :
                  LET r == round_efficiency[k]
                  IN  /\ r.total_rounds
                             = Num(Cardinality(EventsOf(RoundKinds, r.appVersion)))
                      /\ r.avg_final_points
                             = MeanOfPresent(RoundKinds, r.appVersion, 10)
           /\ \A k \in 1..Len(efficiency_stats) :
                  LET r == efficiency_stats[k]
                  IN  /\ r.kitty_events
                             = Num(Cardinality(EventsOf({"kitty_pickup"}, r.appVersion)))
                      /\ r.avg_kitty_points
                             = MeanOfPresent({"kitty_pickup"}, r.appVersion, 100)
           /\ \A k \in 1..Len(ai_strategic) :
                  LET r == ai_strategic[k]
                  IN  /\ r.total_decisions
                             = Num(Cardinality(EventsOf(AiKinds, r.appVersion)))
                      /\ r.avg_decision_score
                             = MeanOfPresent(AiKinds, r.appVersion, 1000)

\* The rows of df that are events: they carry `event` and `timestamp`.
ParseableEvents ==
    {i \in 1..Len(df) : {"event", "timestamp"} \subseteq DOMAIN df[i]}

\* C16 (as claimed): no stage ever aborts the run, and a run over an input
\* without any parseable event ends in the "no data" outcome: an empty
\* report, the "no data" message and no result file.
C16_OnlyNoDataEndsTheRun ==
    /\ pc # "raised"
    /\ (pc = "exited" /\ ParseableEvents = {}) =>
           /\ final_report = <<>>
           /\ output_file = <<>>
           /\ stdout[Len(stdout)] = Said("No data to analyze", 0)

(***************************************************************************)
(* The report as a function of the input records.                          *)
(***************************************************************************)
\* The rows of a frame, as a set.
Rows(frame) == {frame[k] : k \in 1..Len(frame)}

LogFiles == {f \in FileNames : EndsWithLog(f)}

\* The directory with lines i and j of file f exchanged.
Swapped(f, i, j) ==
    [logs_dir EXCEPT ![f] =
        [k \in 1..Len(@) |-> IF k = i THEN @[j] ELSE IF k = j THEN @[i] ELSE @[k]]]

\* The directory with the last line of file f moved to the end of file g.
Moved(f, g) ==
    IF f = g \/ logs_dir[f] = <<>> THEN logs_dir
    ELSE [logs_dir EXCEPT ![f] = SubSeq(@, 1, Len(@) - 1),
                          ![g] = Append(@, logs_dir[f][Len(logs_dir[f])])]

\* The KPIRows a run over directory dir, listed as listing, returns.
RowsOver(dir, listing) == Rows(final_report_of(load_logs(dir, listing)))

\* C17: the returned KPIRows are a function of the multiset of input lines:
\* a run over the same directory in any discovery order of the files, with
\* any two lines of a file exchanged, or with a line moved from one file to
\* another, raises nothing and returns the same set of rows.
C17_ReportIsOrderIndependent ==
    Completed =>
        \A listing \in Listings :
            /\ RowsOver(logs_dir, listing) = Rows(final_report)
            /\ \A f \in LogFiles :
                   /\ \A j \in 1..Len(logs_dir[f]) :
                          \A i \in 1..(j - 1) :
                              /\ ~report_raises(load_logs(Swapped(f, i, j), listing))
                              /\ RowsOver(Swapped(f, i, j), listing) = Rows(final_report)
                   /\ \A g \in LogFiles \ {f} :
                          /\ ~report_raises(load_logs(Moved(f, g), listing))
                          /\ RowsOver(Moved(f, g), listing) = Rows(final_report)

\* C17 witness: a completed report with a filled row, made from lines in both
\* log files, the two files and two lines of one file being different.
C17_Witness ==
    /\ Completed
    /\ \E i \in 1..Len(final_report) :
           ~IsNull(Cell(final_report[i], "avg_kitty_points"))
    /\ Len(logs_dir["game1.log"]) >= 2
    /\ logs_dir["game1.log"][1] # logs_dir["game1.log"][2]
    /\ logs_dir["game2.log"] # <<>>
    /\ logs_dir["game2.log"] # logs_dir["game1.log"]

\* Events of kinds that no view selects.
UnknownEvents ==
    { [timestamp |-> "t", event |-> "debug_note", appVersion |-> v,
       gameId |-> "g1", data |-> [winner |-> "A", kittyPoints |-> 50]] :
          v \in {"v1", "v3"} }

\* frame with row u inserted after its first k rows.
Inserted(frame, u, k) ==
    SubSeq(frame, 1, k) \o <<u>> \o SubSeq(frame, k + 1, Len(frame))

\* The rows of df of the supported kinds.
RoutedEvents == SelectSeq(df, LAMBDA r : Col(r, "event") \in SupportedKinds)

\* C18: events of a kind outside the eight supported kinds raise no error
\* and change no KPIRow: the returned report is the report of the input
\* without them, and inserting one more anywhere leaves it the same; the
\* rows of df stay the decoded lines, payload included, through every step.
C18_UnknownKindsChangeNothing ==
    /\ Completed =>
           /\ Rows(final_report_of(RoutedEvents)) = Rows(final_report)
           /\ \A u \in UnknownEvents, k \in 0..Len(df) :
                  /\ ~report_raises(Inserted(df, u, k))
                  /\ Rows(final_report_of(Inserted(df, u, k))) = Rows(final_report)
    /\ Loaded =>
           \E listing \in Listings : df = load_logs(logs_dir, listing)

\* C18 witness: a completed report with a filled row, made from an input
\* holding an event of an unsupported kind between supported ones.
C18_Witness ==
    /\ Completed
    /\ final_report # <<>>
    /\ \E i, j, k \in 1..Len(df) :
           /\ i < j /\ j < k
           /\ Col(df[i], "event") \in SupportedKinds
           /\ Col(df[j], "event") \notin SupportedKinds
           /\ Col(df[k], "event") \in SupportedKinds

(***************************************************************************)
(* Position win rate and round efficiency, stated from the rows of df.     *)
(***************************************************************************)
\* The tricks of version v whose p-th play was made by the winningPlayer.
WonAtPosition(v, p) ==
    {i \in EventsOf({"trick_completed"}, v) :
        /\ Len(PlaysOf(df[i])) >= p
        /\ PlayerOf(PlaysOf(df[i])[p]) = WinnerOf(df[i])}

\* C19: for each (version, seat position p) with observations the position
\* view has one row, whose total_tricks_at_position is the number of
\* observations at p, tricks_won_at_position the number of those that won,
\* and position_win_rate won / observed rounded to 3 decimals (no row
\* without observations); the report's position_<p>_win_rate of a version is
\* that rate, and missing when the version has no observation at p.
C19_PositionWinRate ==
    /\ PositionStatsDone =>
           \A v \in Versions, p \in 1..4 :
               LET rows == SelectSeq(position_stats,
                               LAMBDA r : r.appVersion = v /\ r.trickPosition = p)
                   observed == PositionDenominator(v, p)
                   won == Cardinality(WonAtPosition(v, p))
               IN  IF observed = 0 THEN rows = <<>>
                   ELSE /\ Len(rows) = 1
                        /\ rows[1].total_tricks_at_position = Num(observed)
                        /\ rows[1].tricks_won_at_position = Num(won)
                        /\ Len(rows[1].position_win_rate) = 1
                        /\ Nearest(Val(rows[1].position_win_rate), won, observed, 1000)
    /\ Completed =>
           \A i \in 1..Len(final_report), p \in 1..4 :
               LET cell == Cell(final_report[i], position_col_name.position_win_rate[p])
                   observed == PositionDenominator(final_report[i].appVersion, p)
                   won == Cardinality(WonAtPosition(final_report[i].appVersion, p))
               IN  IF observed = 0 THEN IsNull(cell)
                   ELSE Len(cell) = 1 /\ Nearest(Val(cell), won, observed, 1000)

\* The position_win_rate of (v, p) in the position view, in thousandths.
PositionWinRate(v, p) ==
    {Val(position_stats[k].position_win_rate) :
        k \in {n \in 1..Len(position_stats) :
                  /\ position_stats[n].appVersion = v
                  /\ position_stats[n].trickPosition = p}}

\* C19 witness: the position view of three four-play tricks of one version,
\* won twice by the second player and once by the third: 0.667 for position
\* 2, 0.333 for position 3, 0.0 for positions 1 and 4.
C19_Witness ==
    /\ PositionStatsDone
    /\ Len(df) = 3
    /\ Cardinality(WonAtPosition("v1", 2)) = 2
    /\ Cardinality(WonAtPosition("v1", 3)) = 1
    /\ PositionDenominator("v1", 4) = 3
    /\ PositionWinRate("v1", 1) = {0}
    /\ PositionWinRate("v1", 2) = {667}
    /\ PositionWinRate("v1", 3) = {333}
    /\ PositionWinRate("v1", 4) = {0}

\* r is num / den rounded to the nearest multiple of 1 / scale, a tie going
\* to the even one.
NearestEven(r, num, den, scale) ==
    /\ Nearest(r, num, den, scale)
    /\ (2 * (num * scale - r * den) = den \/ 2 * (r * den - num * scale) = den)
           => r % 2 = 0

\* The points of the rounds of the given kinds and version, summed: the
\* finalPoints of an attacking victory, the attackingTeamPoints of a
\* defending victory.
RoundPoints(kinds, v) ==
    SumSeq([i \in 1..Len(df) |->
        IF i \notin EventsOf(kinds, v) THEN 0
        ELSE IF df[i].event = "attacking_team_victory" THEN df[i].data.finalPoints
        ELSE df[i].data.attackingTeamPoints])

\* cell is the mean, to 1 decimal, of the points of the rounds of the kinds.
IsMeanPoints(cell, kinds, v) ==
    /\ Len(cell) = 1
    /\ NearestEven(Val(cell), RoundPoints(kinds, v),
                   Cardinality(EventsOf(kinds, v)), 10)

TeamRolesDone == pc \notin {"idle", "game_stats", "team_roles", "raised"} /\ Len(stdout) >= 4

\* Pairs <<i, o>> of a game_initialized row of version v and a game_over row
\* with the same gameId.
RolePairs(v) ==
    {p \in EventsOf({"game_initialized"}, v) \X (1..Len(df)) :
        /\ Col(df[p[2]], "event") = "game_over"
        /\ Col(df[p[2]], "gameId") = Col(df[p[1]], "gameId")}

\* The games of version v having both events.
GamesWithRoles(v) == {Col(df[p[1]], "gameId") : p \in RolePairs(v)}

\* The games of version v, among those, won by the team in the given role.
GamesWonBy(v, role) ==
    {Col(df[p[1]], "gameId") :
        p \in {q \in RolePairs(v) :
                  ObjEq(Get(df[q[1]].data, role, None),
                        Get(df[q[2]].data, "winner", None))}}

\* C21 (as claimed): the team view has one row per version with games having
\* both a game_initialized and a game_over event; its attacking (defending)
\* win rate is the fraction, to 3 decimals, of those games whose
\* attackingTeam (defendingTeam) is the winner, each game weighing once.
C21_TeamWinRatePerGame ==
    TeamRolesDone =>
        \A v \in Versions :
            LET rows == SelectSeq(team_roles, LAMBDA r : r.appVersion = v)
                games == Cardinality(GamesWithRoles(v))
            IN  IF games = 0 THEN rows = <<>>
                ELSE /\ Len(rows) = 1
                     /\ NearestEven(Val(rows[1].attacking_team_win_rate),
                            Cardinality(GamesWonBy(v, "attackingTeam")), games, 1000)
                     /\ NearestEven(Val(rows[1].defending_team_win_rate),
                            Cardinality(GamesWonBy(v, "defendingTeam")), games, 1000)

\* The versions of the rows of the report.
ReportVersions == {final_report[i].appVersion : i \in 1..Len(final_report)}

\* The versions seen in the game lifecycle events.
LifecycleVersions ==
    {v \in Versions : EventsOf({"game_initialized", "game_over"}, v) # {}}

\* C22 (as claimed): the completed report has one row for each version seen
\* in a game_initialized or game_over event.
C22_OneRowPerLifecycleVersion ==
    Completed =>
        /\ ReportVersions = LifecycleVersions
        /\ Len(final_report) = Cardinality(LifecycleVersions)

\* The rows of the completed report and, when main has ended, the saved file:
\* one row for each version seen in a game_over event, the report still the
\* merge result, and the file holding it.
ReportRowsAndSavedFile ==
    /\ Completed =>
           /\ ReportVersions = ReportableVersions
           /\ Len(final_report) = Cardinality(ReportableVersions)
    /\ (pc = "exited" /\ ~Empty(df)) =>
           /\ final_report = final_report_of(df)
           /\ ReportVersions = ReportableVersions
           /\ output_file = IF final_report = <<>> THEN <<>> ELSE <<final_report>>

\* C22 (amended): the completed report has one row for each version seen in
\* a game_over event, and none for a version seen only in game_initialized
\* events; after the merge has completed no step changes a row: when main
\* has ended, the report is still the merge result and the saved file holds it.
C22_OneRowPerGameOverVersionThenFrozen ==
    /\ []ReportRowsAndSavedFile
    /\ [][Completed => final_report' = final_report]_vars

\* C22 witness: main has ended with a saved report, the input holding a
\* version seen in a game_initialized event only.
C22_Witness ==
    /\ pc = "exited"
    /\ output_file # <<>>
    /\ \E v \in Versions :
           /\ EventsOf({"game_initialized"}, v) # {}
           /\ EventsOf({"game_over"}, v) = {}

\* The stages of a run in the order of the calls of generate_final_report
\* and main.
StageOrder ==
    <<"idle", "game_stats", "team_roles", "trick_performance",
      "position_stats", "player_performance", "round_efficiency",
      "ai_strategic", "efficiency_stats", "merge_team_roles",
      "merge_round_efficiency", "merge_position_stats",
      "merge_efficiency_stats", "merge_ai_strategic", "returned", "exited">>

StageIndex(p) == CHOOSE i \in 1..Len(StageOrder) : StageOrder[i] = p

\* The stages whose call can raise.
RaisingStages ==
    {"game_stats", "team_roles", "trick_performance", "round_efficiency",
     "ai_strategic", "efficiency_stats"}

\* What has been computed when the run stands at a stage: nothing before
\* reading, the flattened stream before the position and player views, all
\* seven views before the first merge.
StageState ==
    /\ pc = "idle" => df = <<>> /\ final_report = <<>>
    /\ pc \in {"idle", "game_stats"} =>
           /\ game_stats = <<>> /\ team_roles = <<>> /\ trick_positions = <<>>
           /\ position_stats = <<>> /\ player_performance = <<>>
           /\ round_efficiency = <<>> /\ ai_strategic = <<>>
           /\ efficiency_stats = <<>>
    /\ pc \in {"position_stats", "player_performance"} =>
           trick_positions = analyze_trick_performance(df)
    /\ pc \in {"idle", "game_stats", "team_roles", "trick_performance"} =>
           position_stats = <<>> /\ player_performance = <<>>
    /\ Merging =>
           /\ game_stats = analyze_game_stats(df)
           /\ team_roles = analyze_team_roles(df)
           /\ position_stats = analyze_position_stats(trick_positions)
           /\ player_performance = analyze_player_performance(trick_positions)
           /\ round_efficiency = analyze_round_efficiency(df)
           /\ ai_strategic = analyze_ai_strategic_effectiveness(df)
           /\ efficiency_stats = analyze_efficiency_stats(df)
    /\ pc = "merge_team_roles" => final_report = game_stats
    /\ pc \notin {"merge_team_roles", "merge_round_efficiency",
                  "merge_position_stats", "merge_efficiency_stats",
                  "merge_ai_strategic", "returned", "exited"} =>
           final_report = <<>>

\* One step of a run: the stage moves to its successor in StageOrder (or
\* the run returns on an empty frame, or a view's call raises), and a step
\* writes only what its own stage computes.
StageStep ==
    /\ pc' # pc =>
           \/ pc # "exited" /\ pc # "raised"
                /\ pc' = StageOrder[StageIndex(pc) + 1]
           \/ pc = "idle" /\ pc' = "returned" /\ Empty(df')
           \/ pc \in RaisingStages /\ pc' = "raised"
    /\ df' # df => pc = "idle"
    /\ game_stats' # game_stats => pc = "game_stats"
    /\ team_roles' # team_roles => pc = "team_roles"
    /\ trick_positions' # trick_positions => pc = "trick_performance"
    /\ position_stats' # position_stats => pc = "position_stats"
    /\ player_performance' # player_performance => pc = "player_performance"
    /\ round_efficiency' # round_efficiency => pc = "round_efficiency"
    /\ ai_strategic' # ai_strategic => pc = "ai_strategic"
    /\ efficiency_stats' # efficiency_stats => pc = "efficiency_stats"
    /\ final_report' # final_report =>
           pc \in {"efficiency_stats", "merge_team_roles",
                   "merge_round_efficiency", "merge_position_stats",
                   "merge_efficiency_stats", "merge_ai_strategic"}

\* C24: the stages run in one fixed order with no overlap: reading before
\* any view, the flattener before the position and player views, all seven
\* views before the Merger, and the Merger starts from the Game counts and
\* joins the other views in one sequence that does not depend on the data.
C24_FixedStageOrder == []StageState /\ [][StageStep]_vars

\* C24 witness: a run has gone through every stage and returned a report
\* built from a non-empty flattened stream.
C24_Witness ==
    /\ Completed
    /\ final_report # <<>>
    /\ trick_positions # <<>>
    /\ position_stats # <<>>

(***************************************************************************)
(* Position points per round.                                              *)
(***************************************************************************)
\* The trickPoints of the tricks of version v won from position p, summed.
PointsWonAt(v, p) ==
    SumSeq([i \in 1..Len(df) |->
        IF i \in WonAtPosition(v, p) THEN Get(df[i].data, "trickPoints", 0) ELSE 0])

\* The play observations of all versions.
TotalObservations ==
    SumSeq([i \in 1..Len(df) |->
        IF Col(df[i], "event") = "trick_completed" THEN Len(PlaysOf(df[i])) ELSE 0])

\* The distinct versions of the play observations.
ObservedVersions ==
    {Col(df[i], "appVersion") :
        i \in {j \in 1..Len(df) : /\ Col(df[j], "event") = "trick_completed"
                                  /\ PlaysOf(df[j]) # <<>>}}

\* C25: for each (version, position) row of the position view,
\* avg_points_per_round is the trickPoints of the group's winning
\* observations divided by (observations of all versions / 4 / distinct
\* versions), rounded to 2 decimals; that divisor is not zero when the view
\* has rows.
C25_AvgPointsPerRound ==
    PositionStatsDone =>
        /\ position_stats # <<>> =>
               TotalObservations > 0 /\ ObservedVersions # {}
        /\ \A k \in 1..Len(position_stats) :
               LET r == position_stats[k]
               IN  /\ Len(r.avg_points_per_round) = 1
                   /\ NearestEven(Val(r.avg_points_per_round),
                          PointsWonAt(r.appVersion, r.trickPosition)
                              * 4 * Cardinality(ObservedVersions),
                          TotalObservations, 100)

\* C25 witness: a four-play trick of v1 won from position 2 with 10 points
\* and a two-play trick of v2 won from position 1 with 5 points: six
\* observations of two versions, 0.75 rounds, hence 13.33 and 6.67.
C25_Witness ==
    /\ PositionStatsDone
    /\ TotalObservations = 6
    /\ Cardinality(ObservedVersions) = 2
    /\ \E k \in 1..Len(position_stats) :
           /\ position_stats[k].appVersion = "v1"
           /\ position_stats[k].trickPosition = 2
           /\ position_stats[k].avg_points_per_round = Num(1333)
    /\ \E k \in 1..Len(position_stats) :
           /\ position_stats[k].appVersion = "v2"
           /\ position_stats[k].trickPosition = 1
           /\ position_stats[k].avg_points_per_round = Num(667)

(***************************************************************************)
(* Version isolation.                                                      *)
(***************************************************************************)
\* The events of df that carry version v.
EventsOfVersion(v) == SelectSeq(df, LAMBDA r : Col(r, "appVersion") = v)

\* The rows of a report for version v.
RowsOfVersion(report, v) == SelectSeq(report, LAMBDA r : r.appVersion = v)

\* Two rows hold the same value in every column, an absent column being a
\* missing value.
SameRow(a, b) ==
    \A c \in (DOMAIN a) \cup (DOMAIN b) : Cell(a, c) = Cell(b, c)

\* C26: the KPIRow of a version v is the same in the report of the whole
\* input and in the report of the input holding only the events of v: no
\* metric of v depends on another version's events.
C26_VersionIsolation ==
    Completed =>
        \A v \in ReportableVersions :
            ~report_raises(EventsOfVersion(v)) =>
                LET whole == RowsOfVersion(final_report, v)
                    alone == RowsOfVersion(final_report_of(EventsOfVersion(v)), v)
                IN  /\ Len(whole) = Len(alone)
                    /\ \A i \in 1..Len(whole) : SameRow(whole[i], alone[i])

(***************************************************************************)
(* Log normalization (process_logs.py).                                    *)
(***************************************************************************)
\* The step is a call of process_log_file_in_place.
IsCall == calls' = calls + 1

\* What the latest call printed last.
Outcome == IF stdout = <<>> THEN "" ELSE stdout[Len(stdout)].msg

\* The lines of a file that hold a JSON object.
ValidLines(lines) == SelectSeq(lines, LAMBDA l : Decodes(l))

\* Every line holds an object whose sequenceNumber is the line's number.
Numbered(lines) ==
    \A i \in 1..Len(lines) :
        /\ Decodes(lines[i])
        /\ "sequenceNumber" \in DOMAIN lines[i].json
        /\ lines[i].json.sequenceNumber = i

Unnumbered(data) == [k \in (DOMAIN data) \ {"sequenceNumber"} |-> data[k]]

\* The objects of the valid lines of a file, in line order, without their
\* sequenceNumber.
Events(lines) ==
    LET valid == ValidLines(lines)
    IN  [i \in 1..Len(valid) |-> Unnumbered(valid[i].json)]

\* Some line of the file decodes to a document that is not an object.
HasScalar(lines) == \E i \in 1..Len(lines) : IsScalar(lines[i])

\* The files other than the one of the call are left as they were.
OtherFilesKept == \A g \in FileNames \ {filepath'} : logs_dir'[g] = logs_dir[g]

\* C27: a call of process_log_file_in_place leaves every other file alone
\* and either rewrites its file to exactly the file's valid JSON lines, in
\* their order (no blank or malformed line is left, each line holding the
\* object it held), or leaves the file untouched; it is untouched when it
\* has no valid line or reading it failed, and rewritten when it has a valid
\* line, every line that decodes is an object and reading did not fail; a
\* call on a file a call has rewritten, with nothing written since, leaves
\* the content unchanged.
C27_RewriteKeepsValidLines ==
    [][IsCall =>
          LET before == logs_dir[filepath']
              after == logs_dir'[filepath']
          IN  /\ OtherFilesKept
              /\ Outcome' \in {"Successfully processed",
                               "No valid lines processed", "Error reading"}
              /\ Outcome' = "Successfully processed" =>
                     /\ \A i \in 1..Len(after) : Decodes(after[i])
                     /\ Events(after) = Events(before)
                     /\ Len(after) = Len(ValidLines(before))
              /\ Outcome' # "Successfully processed" => after = before
              /\ ValidLines(before) = <<>> => after = before
              /\ (ValidLines(before) # <<>> /\ ~HasScalar(before)) =>
                     Outcome' \in {"Successfully processed", "Error reading"}
              /\ HasScalar(before) => Outcome' = "Error reading"
              /\ (Numbered(before) /\ before # <<>>
                      /\ \A i \in 1..Len(before) : "dumped" \in DOMAIN before[i]) =>
                     after = before]_vars

\* C27 witness: a second call on a file that the first call rewrote to two
\* lines, dropping a malformed line, has left the two lines as they were.
C27_Witness ==
    /\ calls = 2
    /\ Len(stdout) = 5
    /\ stdout[2].msg = "Skipping malformed JSON line"
    /\ stdout[3] = Said("Successfully processed", 2)
    /\ stdout[5] = Said("Successfully processed", 2)
    /\ Len(logs_dir["game1.log"]) = 2
    /\ Numbered(logs_dir["game1.log"])
    /\ logs_dir["game2.log"] = <<>>

(***************************************************************************)
(* upload_logs_to_gcs.py.                                                  *)
(***************************************************************************)
\* The step is a run of upload_logs_to_gcs that reached the upload loop;
\* the files it discovered are the domain of its report.
IsUploadLoop ==
    /\ upload_report' # NoReport
    /\ \/ upload_report' # upload_report
       \/ upload_result' # upload_result
       \/ \E n \in UploadNames :
              simulation_bucket'[n] = "uploaded" /\ simulation_bucket[n] = "absent"

\* The file was uploaded by this step to a blob that did not exist.
NewlyUploaded(n) ==
    simulation_bucket[n] = "absent" /\ simulation_bucket'[n] = "uploaded"

\* C29: no step changes a blob that exists; in a run of upload_logs_to_gcs
\* a failure on one file leaves the other files handled (each discovered
\* file whose blob is absent and whose turn did not fail is uploaded), and
\* the run returns True exactly when every discovered file was newly
\* uploaded by it: a file skipped because its blob exists makes the result
\* False, as a failed upload does.
C29_NoOverwriteAndExactResult ==
    [][/\ \A n \in UploadNames :
              simulation_bucket[n] # "absent" =>
                  simulation_bucket'[n] = simulation_bucket[n]
       /\ IsUploadLoop =>
              LET discovered == DOMAIN upload_report'
              IN  /\ discovered = glob_log_gz(logs_listing)
                  /\ \A n \in discovered :
                         /\ upload_report'[n] = "uploaded" <=> NewlyUploaded(n)
                         /\ (simulation_bucket[n] = "absent"
                                 /\ upload_report'[n] # "failed") =>
                                NewlyUploaded(n)
                         /\ simulation_bucket[n] # "absent" =>
                                upload_report'[n] \in {"skipped", "failed"}
                  /\ upload_result' = "True" <=>
                         \A n \in discovered : NewlyUploaded(n)
                  /\ (\E n \in discovered :
                         upload_report'[n] \in {"skipped", "failed"}) =>
                         upload_result' = "False"]_vars

\* C29 witness: a run found two files, skipped the one whose blob was
\* stored before, uploaded the other and returned False.
C29_Witness ==
    /\ DOMAIN upload_report = {"sim1.log.gz", "sim2.log.gz"}
    /\ upload_report["sim1.log.gz"] = "skipped"
    /\ upload_report["sim2.log.gz"] = "uploaded"
    /\ simulation_bucket["sim1.log.gz"] = "stored"
    /\ simulation_bucket["sim2.log.gz"] = "uploaded"
    /\ upload_result = "False"

(***************************************************************************)
(* BigQuerySetup.run_setup.                                                *)
(***************************************************************************)
\* The step creates a dataset, a table, the staging bucket or a transfer
\* job from run_setup.
SetupCreates ==
    \/ dataset' # dataset
    \/ table' # table
    \/ staging' = "created" /\ staging # "created"
    \/ transfer_jobs' # transfer_jobs

\* Authentication succeeded and the service account was obtained and
\* granted its roles.
SetupGate ==
    /\ authenticated
    /\ service_account
    /\ {ProjectRole, BucketRole} \subseteq iam_roles

\* run_setup creates nothing before its gate is passed.
SetupIsGated == [][SetupCreates => SetupGate]_vars

\* C30: run_setup creates no dataset, table, bucket or transfer job unless
\* authentication succeeded and the service account was obtained and
\* granted its roles, and after any number of runs there is at most one
\* Tractor Data Transfer job (the dataset, the table and the staging bucket
\* being single by their names).
C30_SetupIsIdempotentAndGated ==
    /\ SetupIsGated
    /\ [](transfer_jobs <= 1)

(***************************************************************************)
(* The BigQuery workflow (bigquery_main.py).                               *)
(***************************************************************************)
\* run_upload of the latest run returned True: it set gcs_files, the files
\* it uploaded, all of them in the bucket.
UploadReturnedSuccess ==
    /\ gcs_files # {}
    /\ gcs_files \subseteq staging_blobs
    /\ logs_listing # <<>>
    /\ gcs_files \subseteq logs_listing[1]

\* C28: in the 'full' command run_analysis starts only after run_upload
\* returned success; in the 'upload' command the transfer is triggered only
\* after the logs directory exists and at least one file was uploaded; an
\* upload that failed or found no file ends the command with result False
\* and neither the transfer nor the analysis runs.
C28_WorkflowOrdering ==
    /\ [](/\ (command = "full" /\ (analysis_started \/ main_pc = "run_analysis"))
               => UploadReturnedSuccess
          /\ (command = "upload"
                  /\ (transfer_started \/ main_pc = "trigger_bigquery_transfer"))
               => UploadReturnedSuccess
          /\ transfer_started => command = "upload"
          /\ analysis_started => command \in {"analyse", "full"}
          /\ (command \in {"upload", "full"} /\ main_pc = "exit" /\ gcs_files = {})
               => /\ main_result = "False"
                  /\ ~transfer_started
                  /\ ~analysis_started)
    /\ [][(command \in {"upload", "full"} /\ main_pc = "run_upload"
              /\ main_pc' # "run_upload" /\ gcs_files' = {})
             => main_pc' = "exit" /\ main_result' = "False"]_vars

\* C28 witness: a 'full' run has uploaded a file and then run the analysis.
C28_Witness ==
    /\ command = "full"
    /\ main_pc = "exit"
    /\ analysis_started
    /\ gcs_files = {"sim1.log.gz"}
    /\ main_result = "True"

====
